---- MODULE Spec2Model ----
(***************************************************************************)
(* Document ingestion and retrieval pipeline (document_processor and       *)
(* rag_system packages): TextChunker, DocumentProcessor,                   *)
(* EmbeddingGenerator, VectorStore and RAGRetriever as state machines.     *)
(*                                                                         *)
(* The specifications share the variables below:                           *)
(*   SpecEmbed  one call of EmbeddingGenerator.generate_embeddings_batch   *)
(*   SpecMeta   the metadata codec of VectorStore (add / _parse_metadata)  *)
(*   Spec       VectorStore and RAGRetriever operations on one collection  *)
(*   SpecStore  every VectorStore operation on one collection              *)
(*   SpecChunk  one call of TextChunker.chunk_text                         *)
(*   SpecProcess  one call of DocumentProcessor.process_all_documents      *)
(*   SpecReprocess  two calls of process_all_documents on one processor    *)
(*   SpecRag    RAGRetriever construction, population, refresh, additions  *)
(*   SpecRead   two calls of DocumentReader.read_document                  *)
(*   SpecSim    one call of EmbeddingGenerator.compute_similarity          *)
(* SpecEmbedFair and SpecRagFair add the fairness under which a call that  *)
(* has started runs to its end.                                            *)
(* The variables of the components a specification does not exercise keep *)
(* their idle values.                                                      *)
(***************************************************************************)
EXTENDS Integers, Sequences, FiniteSets, TLC

VARIABLES
    \* EmbeddingGenerator.generate_embeddings_batch
    texts,          \* the input list
    batch_size,     \* the batch_size argument
    model,          \* embedding_config["model"]
    epc,            \* position in the call: "idle", "loop", "fallback", "done", "raised"
    i,              \* the for-loop offset into texts (0-based, as in range())
    j,              \* 1-based position in the failed batch during the fallback loop
    embeddings,     \* the embeddings list built so far
    events,         \* the requests sent and the delays taken so far, in order
    \* VectorStore metadata codec
    mpc,            \* "idle", "input", "stored", "parsed"
    metadata,       \* the metadata mapping handed to add_document
    chroma_metadata,\* the string-valued mapping persisted by the store
    parsed,         \* the mapping _parse_metadata returns
    \* VectorStore / RAGRetriever
    collection,     \* the ChromaDB collection: id -> record
    lastOp,         \* the call in progress: its arguments and its outcome
    otherWrites,    \* whether an add with a caller-supplied id has succeeded
    \* AppConfig
    chunk_size,     \* CHUNK_SIZE
    chunk_overlap,  \* CHUNK_OVERLAP
    \* TextChunker.chunk_text
    input_text,     \* the text argument
    chunk_method,   \* the chunk_method argument
    cpc,            \* "idle", "called", "returned", "raised"
    chunks,         \* the list chunk_text returns
    \* DocumentProcessor.process_all_documents
    root,           \* the files under the document root, in path order
    ppc,            \* "idle", "called", "returned"
    all_documents,  \* the list process_all_documents returns
    processed_documents, \* the hashes of the files that gave chunks
    skipped,        \* the files the hash check skipped (by position in root)
    previous_documents, \* the list the call before this one returned
    \* RAGRetriever
    rpc,            \* "idle", "uninitialized", "populating", "ready"
    documents,      \* the documents _initialize_vector_store is storing
    didx,           \* 1-based position in documents of the next one
    outcomes,       \* per document: "ok", "embed_fails" or "store_fails"
    \* DocumentReader.read_document
    reads,          \* the files read_document is called with, one per call
    contents,       \* what the calls made so far returned, in order
    \* EmbeddingGenerator.compute_similarity
    embedding1,     \* the first argument
    embedding2,     \* the second argument
    spc,            \* "idle", "called", "returned", "raised"
    similarity      \* what the call returned or raised

embedVars == <<texts, batch_size, model, epc, i, j, embeddings, events>>
metaVars  == <<mpc, metadata, chroma_metadata, parsed>>
storeVars == <<collection, lastOp, otherWrites>>
configVars == <<chunk_size, chunk_overlap>>
chunkVars == <<input_text, chunk_method, cpc, chunks>>
procVars == <<root, ppc, all_documents, processed_documents, skipped,
             previous_documents>>
ragVars == <<rpc, documents, didx, outcomes>>
readVars == <<reads, contents>>
simVars == <<embedding1, embedding2, spc, similarity>>
ingestVars == <<configVars, chunkVars, procVars, ragVars>>
vars      == <<embedVars, metaVars, storeVars, ingestVars, readVars, simVars>>

Min(a, b) == IF a <= b THEN a ELSE b

\* Python's Optional: None is the empty tuple, a value v is <<v>>.
None == <<>>
Some(v) == <<v>>

-----------------------------------------------------------------------------
(* Text.  A string is a sequence of one-character strings.                 *)

Whitespace == {" ", "\t", "\n"}

RECURSIVE lstrip(_)
lstrip(s) == IF s # <<>> /\ Head(s) \in Whitespace THEN lstrip(Tail(s)) ELSE s

RECURSIVE rstrip(_)
rstrip(s) ==
    IF s # <<>> /\ s[Len(s)] \in Whitespace
    THEN rstrip(SubSeq(s, 1, Len(s) - 1))
    ELSE s

\* A strip that removes blanks only (str.strip(" ")): tabs and newlines stay.
strip_spaces_only(s) ==
    LET RECURSIVE l(_)
        l(t) == IF t # <<>> /\ Head(t) = " " THEN l(Tail(t)) ELSE t
        RECURSIVE r(_)
        r(t) == IF t # <<>> /\ t[Len(t)] = " "
                THEN r(SubSeq(t, 1, Len(t) - 1)) ELSE t
    IN r(l(s))

\* str.strip()
strip(s) == rstrip(lstrip(s))

\* "not text.strip()"
IsBlank(s) == strip(s) = <<>>

-----------------------------------------------------------------------------
(* Metadata values and their string forms.                                 *)
(* A value is [t |-> type, v |-> payload]:                                 *)
(*   "str"   a sequence of characters      "int"   an integer              *)
(*   "bool"  a boolean                     "none"  None (v is 0)           *)
(*   "float" <<m, d>>, the number m / 10^d with d minimal                  *)
(*   "list"  a sequence of values                                          *)
(*   "dict"  a sequence of <<key characters, value>> pairs                 *)

Digits == <<"0", "1", "2", "3", "4", "5", "6", "7", "8", "9">>
DigitChars == {Digits[n] : n \in 1..10}
DigitVal(c) == (CHOOSE n \in 1..10 : Digits[n] = c) - 1

Upper == <<"A", "B", "C", "D", "E", "F", "G", "H", "I", "J", "K", "L", "M",
           "N", "O", "P", "Q", "R", "S", "T", "U", "V", "W", "X", "Y", "Z">>
Lower == <<"a", "b", "c", "d", "e", "f", "g", "h", "i", "j", "k", "l", "m",
           "n", "o", "p", "q", "r", "s", "t", "u", "v", "w", "x", "y", "z">>

\* str.lower()
lower(s) ==
    [n \in 1..Len(s) |->
        IF \E u \in 1..26 : Upper[u] = s[n]
        THEN Lower[CHOOSE u \in 1..26 : Upper[u] = s[n]]
        ELSE s[n]]

\* str.isdigit()
isdigit(s) == s # <<>> /\ \A n \in 1..Len(s) : s[n] \in DigitChars

Contains(s, c) == \E n \in 1..Len(s) : s[n] = c

\* s.replace(c, '', 1)
replace_first(s, c) ==
    IF Contains(s, c)
    THEN LET n == CHOOSE n \in 1..Len(s) :
                      s[n] = c /\ \A k \in 1..(n - 1) : s[k] # c
         IN SubSeq(s, 1, n - 1) \o SubSeq(s, n + 1, Len(s))
    ELSE s

\* s.startswith(prefix)
startswith(s, c) == s # <<>> /\ s[1] = c

RECURSIVE Pow10(_)
Pow10(d) == IF d = 0 THEN 1 ELSE 10 * Pow10(d - 1)

RECURSIVE NatStr(_)
NatStr(n) ==
    IF n < 10 THEN <<Digits[n + 1]>>
    ELSE NatStr(n \div 10) \o <<Digits[(n % 10) + 1]>>

\* a run of digits read as a number; the empty run is 0
RECURSIVE DigitsVal(_)
DigitsVal(s) ==
    IF s = <<>> THEN 0
    ELSE 10 * DigitsVal(SubSeq(s, 1, Len(s) - 1)) + DigitVal(s[Len(s)])

\* str(int)
IntStr(n) == IF n < 0 THEN <<"-">> \o NatStr(0 - n) ELSE NatStr(n)

\* d digits of n, zero-padded on the left
RECURSIVE PadDigits(_, _)
PadDigits(n, d) ==
    IF d = 0 THEN <<>> ELSE PadDigits(n \div 10, d - 1) \o <<Digits[(n % 10) + 1]>>

\* m / 10^d with the trailing zeros of the fraction dropped
RECURSIVE NormFloat(_, _)
NormFloat(m, d) ==
    IF d > 0 /\ m % 10 = 0 THEN NormFloat(m \div 10, d - 1) ELSE <<m, d>>

\* repr(float) of m / 10^d (positional notation: the magnitudes modelled are
\* between 1e-4 and 1e16)
FloatStr(f) ==
    LET m == IF f[1] < 0 THEN 0 - f[1] ELSE f[1]
        d == f[2]
        sign == IF f[1] < 0 THEN <<"-">> ELSE <<>>
    IN sign \o NatStr(m \div Pow10(d)) \o <<".">>
            \o (IF d = 0 THEN <<"0">> ELSE PadDigits(m % Pow10(d), d))

Str(v) == [t |-> "str", v |-> v]
Int_(v) == [t |-> "int", v |-> v]
Float(m, d) == [t |-> "float", v |-> NormFloat(m, d)]
Bool(v) == [t |-> "bool", v |-> v]
List(v) == [t |-> "list", v |-> v]
Dict(v) == [t |-> "dict", v |-> v]
NoneValue == [t |-> "none", v |-> 0]

\* Two values are equal when they have the same type and the same payload.
SameValue(a, b) == a.t = b.t /\ a.v = b.v

\* str(value) for the primitive types (line 76)
python_str(v) ==
    CASE v.t = "str" -> v.v
      [] v.t = "int" -> IntStr(v.v)
      [] v.t = "float" -> FloatStr(v.v)
      [] v.t = "bool" ->
            IF v.v THEN <<"T", "r", "u", "e">> ELSE <<"F", "a", "l", "s", "e">>

RECURSIVE json_dumps(_)
RECURSIVE dumps_items(_)
RECURSIVE dumps_members(_)
\* json.dumps(value) with the default separators; the characters modelled
\* need no escaping
json_dumps(v) ==
    CASE v.t = "str" -> <<"\"">> \o v.v \o <<"\"">>
      [] v.t = "int" -> IntStr(v.v)
      [] v.t = "float" -> FloatStr(v.v)
      [] v.t = "bool" ->
            IF v.v THEN <<"t", "r", "u", "e">> ELSE <<"f", "a", "l", "s", "e">>
      [] v.t = "none" -> <<"n", "u", "l", "l">>
      [] v.t = "list" -> <<"[">> \o dumps_items(v.v) \o <<"]">>
      [] v.t = "dict" -> <<"{">> \o dumps_members(v.v) \o <<"}">>
dumps_items(xs) ==
    IF xs = <<>> THEN <<>>
    ELSE json_dumps(Head(xs))
         \o (IF Len(xs) > 1 THEN <<",", " ">> \o dumps_items(Tail(xs)) ELSE <<>>)
dumps_members(ms) ==
    IF ms = <<>> THEN <<>>
    ELSE <<"\"">> \o Head(ms)[1] \o <<"\"", ":", " ">> \o json_dumps(Head(ms)[2])
         \o (IF Len(ms) > 1 THEN <<",", " ">> \o dumps_members(Tail(ms)) ELSE <<>>)

\* json.loads.  A parse step answers [ok, v, p]: whether it succeeded, the
\* value read and the position after it.  Numbers are read without an exponent
\* part, strings without escape sequences.
JsonWs == {" ", "\t", "\n", "\r"}
At(s, p) == IF p >= 1 /\ p <= Len(s) THEN s[p] ELSE ""
ParseFail == [ok |-> FALSE, v |-> NoneValue, p |-> 0]
ParseOk(v, p) == [ok |-> TRUE, v |-> v, p |-> p]

RECURSIVE SkipWs(_, _)
SkipWs(s, p) == IF At(s, p) \in JsonWs THEN SkipWs(s, p + 1) ELSE p

\* the position after the run of digits that starts at p
RECURSIVE DigitsEnd(_, _)
DigitsEnd(s, p) == IF At(s, p) \in DigitChars THEN DigitsEnd(s, p + 1) ELSE p

\* the position of the first c at or after p (Len(s) + 1 when there is none)
RECURSIVE Find(_, _, _)
Find(s, p, c) == IF p > Len(s) \/ s[p] = c THEN p ELSE Find(s, p + 1, c)

HasAt(s, p, word) ==
    /\ p + Len(word) - 1 <= Len(s)
    /\ SubSeq(s, p, p + Len(word) - 1) = word

\* NUMBER_RE: -?(0|[1-9]\d*)(\.\d+)? matched at p
ParseNumber(s, p) ==
    LET neg == At(s, p) = "-"
        q == IF neg THEN p + 1 ELSE p
        intEnd == IF At(s, q) = "0" THEN q + 1 ELSE DigitsEnd(s, q)
        ip == DigitsVal(SubSeq(s, q, intEnd - 1))
        hasFrac == At(s, intEnd) = "." /\ At(s, intEnd + 1) \in DigitChars
        fracEnd == DigitsEnd(s, intEnd + 1)
        d == fracEnd - (intEnd + 1)
        fp == DigitsVal(SubSeq(s, intEnd + 1, fracEnd - 1))
        sgn(n) == IF neg THEN 0 - n ELSE n
    IN IF At(s, q) \notin DigitChars THEN ParseFail
       ELSE IF hasFrac THEN ParseOk(Float(sgn(ip * Pow10(d) + fp), d), fracEnd)
       ELSE ParseOk(Int_(sgn(ip)), intEnd)

ParseString(s, p) ==
    LET q == Find(s, p + 1, "\"")
    IN IF At(s, p) # "\"" \/ q > Len(s) THEN ParseFail
       ELSE ParseOk(Str(SubSeq(s, p + 1, q - 1)), q + 1)

RECURSIVE ParseValue(_, _)
RECURSIVE ParseItems(_, _, _)
RECURSIVE ParseMembers(_, _, _)
ParseValue(s, p0) ==
    LET p == SkipWs(s, p0)
        c == At(s, p)
    IN CASE c = "\"" -> ParseString(s, p)
         [] c = "[" ->
              IF At(s, SkipWs(s, p + 1)) = "]"
              THEN ParseOk(List(<<>>), SkipWs(s, p + 1) + 1)
              ELSE ParseItems(s, p + 1, <<>>)
         [] c = "{" ->
              IF At(s, SkipWs(s, p + 1)) = "}"
              THEN ParseOk(Dict(<<>>), SkipWs(s, p + 1) + 1)
              ELSE ParseMembers(s, SkipWs(s, p + 1), <<>>)
         [] c = "t" /\ HasAt(s, p, <<"t", "r", "u", "e">>) ->
              ParseOk(Bool(TRUE), p + 4)
         [] c = "f" /\ HasAt(s, p, <<"f", "a", "l", "s", "e">>) ->
              ParseOk(Bool(FALSE), p + 5)
         [] c = "n" /\ HasAt(s, p, <<"n", "u", "l", "l">>) ->
              ParseOk(NoneValue, p + 4)
         [] c = "-" \/ c \in DigitChars -> ParseNumber(s, p)
         [] OTHER -> ParseFail
\* the items of an array from p on: a value, then "," and more, or "]"
ParseItems(s, p, acc) ==
    LET r == ParseValue(s, p)
        q == SkipWs(s, r.p)
    IN IF ~r.ok THEN ParseFail
       ELSE IF At(s, q) = "]" THEN ParseOk(List(Append(acc, r.v)), q + 1)
       ELSE IF At(s, q) = "," THEN ParseItems(s, q + 1, Append(acc, r.v))
       ELSE ParseFail
\* the members of an object from p on: "key": value, then "," and more, or "}"
ParseMembers(s, p, acc) ==
    LET k == ParseString(s, p)
        colon == SkipWs(s, k.p)
        r == ParseValue(s, colon + 1)
        q == SkipWs(s, r.p)
    IN IF ~k.ok \/ At(s, colon) # ":" THEN ParseFail
       ELSE IF ~r.ok THEN ParseFail
       ELSE IF At(s, q) = "}"
            THEN ParseOk(Dict(Append(acc, <<k.v.v, r.v>>)), q + 1)
       ELSE IF At(s, q) = ","
            THEN ParseMembers(s, SkipWs(s, q + 1), Append(acc, <<k.v.v, r.v>>))
       ELSE ParseFail

\* json.loads(s): Some(value), or None for a JSONDecodeError
json_loads(s) ==
    LET r == ParseValue(s, 1)
    IN IF r.ok /\ SkipWs(s, r.p) = Len(s) + 1 THEN Some(r.v) ELSE None

\* int(s) / float(s) for a string that passed the digit test of line 168 (digits
\* with at most one "." and at most one "-"): Some(value), or None for a
\* ValueError, which is raised when the "-" is not the first character.
parse_number(s) ==
    LET neg == Contains(s, "-")
        body == IF neg THEN Tail(s) ELSE s
        dot == Find(body, 1, ".")
        ip == DigitsVal(SubSeq(body, 1, dot - 1))
        frac == SubSeq(body, dot + 1, Len(body))
        sgn(n) == IF neg THEN 0 - n ELSE n
    IN IF neg /\ s[1] # "-" THEN None
       ELSE IF Contains(s, ".")
            THEN Some(Float(sgn(ip * Pow10(Len(frac)) + DigitsVal(frac)), Len(frac)))
       ELSE Some(Int_(sgn(DigitsVal(body))))

\* the value of an optional, or the default for None
OrElse(opt, default) == IF opt # None THEN opt[1] ELSE default

\* value.lower() in ('true', 'false')
IsBoolWord(w) == w \in {<<"t", "r", "u", "e">>, <<"f", "a", "l", "s", "e">>}

\* add_document, lines 75-78: the string persisted for one metadata value
encode_value(v) ==
    IF v.t \in {"str", "int", "float", "bool"} THEN python_str(v) ELSE json_dumps(v)

\* _parse_metadata, lines 163-178: the value read back from one stored string
parse_value(s) ==
    IF startswith(s, "[") \/ startswith(s, "{")
    THEN OrElse(json_loads(s), Str(s))
    ELSE IF isdigit(replace_first(replace_first(s, "."), "-"))
    THEN OrElse(parse_number(s), Str(s))
    ELSE IF IsBoolWord(lower(s))
    THEN Bool(lower(s) = <<"t", "r", "u", "e">>)
    ELSE Str(s)

-----------------------------------------------------------------------------
(* EmbeddingGenerator                                                      *)

MaxTexts == 3
MaxBatchSize == 2
UnknownModelDim == 5

EmbedTexts == {<<" ">>, <<"a">>}

KnownModels == {"text-embedding-ada-002", "text-embedding-3-small",
                "text-embedding-3-large",
                "sentence-transformers/all-MiniLM-L6-v2",
                "sentence-transformers/all-mpnet-base-v2"}
Models == KnownModels \cup {"custom-model"}

\* get_embedding_dimension's table
model_dimensions(m) ==
    CASE m = "text-embedding-ada-002" -> 1536
      [] m = "text-embedding-3-small" -> 1536
      [] m = "text-embedding-3-large" -> 3072
      [] m = "sentence-transformers/all-MiniLM-L6-v2" -> 384
      [] m = "sentence-transformers/all-mpnet-base-v2" -> 768

\* The length of the vectors the embedding service returns for a model.
ServiceDim(m) == IF m \in KnownModels THEN model_dimensions(m) ELSE UnknownModelDim

DEFAULT_DIMENSION == 1536

\* get_embedding_dimension: probe is None when the test embedding fails,
\* Some(length of the test embedding) otherwise; read for unknown models only.
get_embedding_dimension(m, probe) ==
    IF m \in KnownModels THEN model_dimensions(m)
    ELSE IF probe # None THEN probe[1]
    ELSE DEFAULT_DIMENSION

ProbeOutcomes(m) == {None, Some(ServiceDim(m))}

\* A vector is kept by its length, whether it is the all-zero fallback, and the
\* 1-based input position of the text it was computed for (0: for no text).
ServiceVector(pos) == [kind |-> "emb", len |-> ServiceDim(model), of |-> pos]

ZERO_VECTOR_DIM == 1536

\* [0.0] * 1536
ZeroVector(pos) == [kind |-> "zero", len |-> ZERO_VECTOR_DIM, of |-> pos]

\* texts[i:i + batch_size]
Batch == SubSeq(texts, i + 1, Min(i + batch_size, Len(texts)))

InitEmbedIdle ==
    /\ texts = <<>> /\ batch_size = 1 /\ model = "text-embedding-ada-002"
    /\ epc = "idle" /\ i = 0 /\ j = 0 /\ embeddings = <<>> /\ events = <<>>

InitMetaIdle ==
    /\ mpc = "idle" /\ metadata = <<>> /\ chroma_metadata = <<>> /\ parsed = <<>>

InitStoreIdle ==
    /\ collection = <<>> /\ lastOp = [name |-> "none"] /\ otherWrites = FALSE

\* CHUNK_SIZE and CHUNK_OVERLAP as settings.py sets them when the environment
\* does not
InitConfigDefault == chunk_size = 1000 /\ chunk_overlap = 200

InitChunkIdle ==
    /\ input_text = <<>> /\ chunk_method = "recursive" /\ cpc = "idle" /\ chunks = <<>>

InitProcessIdle ==
    /\ root = <<>> /\ ppc = "idle" /\ all_documents = <<>>
    /\ processed_documents = {} /\ skipped = {}
    /\ previous_documents = <<>>

InitRagIdle ==
    /\ rpc = "idle" /\ documents = <<>> /\ didx = 0 /\ outcomes = <<>>

InitReadIdle ==
    /\ reads = <<>> /\ contents = <<>>

InitSimIdle ==
    /\ embedding1 = <<>> /\ embedding2 = <<>> /\ spc = "idle" /\ similarity = <<>>

InitIngestIdle == InitConfigDefault /\ InitChunkIdle /\ InitProcessIdle /\ InitRagIdle

InitEmbed ==
    /\ texts \in UNION {[1..n -> EmbedTexts] : n \in 0..MaxTexts}
    /\ batch_size \in 0..MaxBatchSize
    /\ model \in Models
    /\ epc = "start" /\ i = 0 /\ j = 0 /\ embeddings = <<>> /\ events = <<>>
    /\ InitMetaIdle /\ InitStoreIdle /\ InitIngestIdle
    /\ InitReadIdle /\ InitSimIdle

\* lines 89-97: the empty input returns [], a batch_size of 0 raises
\* (division by zero at line 93), otherwise the loop starts.
EmbedEnter ==
    /\ epc = "start"
    /\ epc' = IF texts = <<>> THEN "done"
              ELSE IF batch_size = 0 THEN "raised" ELSE "loop"
    /\ UNCHANGED <<readVars, simVars, texts, batch_size, model, i, j, embeddings, events, metaVars,
                   storeVars, ingestVars>>

\* line 103 and line 93
batch_num == (i \div batch_size) + 1
total_batches == (Len(texts) + batch_size - 1) \div batch_size

\* the request _process_embedding_batch posts for the batch at offset i (line
\* 147); ok tells whether generate_embeddings_batch got embeddings from it
batch_request(ok) ==
    [kind |-> "batch", first |-> i + 1, size |-> Len(Batch), ok |-> ok]

\* Every per-text request carries the first text of the batch.
fallback_request_first(offset, n) == [kind |-> "single", pos |-> offset + 1]

\* the request generate_embedding posts for the n-th text of the batch at
\* offset (line 53): pos is the text's position in texts
fallback_request(offset, n) == [kind |-> "single", pos |-> offset + n]

\* time.sleep (lines 112 and 120)
sleep == [kind |-> "sleep"]

\* lines 111-112: the delay after a batch that is not the last
AfterBatch == IF batch_num < total_batches THEN <<sleep>> ELSE <<>>

\* lines 105-110: the batch request answers with k embeddings, which extend the
\* list; the n-th of them is the n-th text's when the batch has an n-th text.
BatchResponds ==
    /\ epc = "loop" /\ i < Len(texts)
    /\ \E k \in 0..(Len(Batch) + 1) :
          embeddings' = embeddings \o
              [n \in 1..k |-> ServiceVector(IF n <= Len(Batch) THEN i + n ELSE 0)]
    /\ i' = i + batch_size
    /\ events' = events \o <<batch_request(TRUE)>> \o AfterBatch
    /\ UNCHANGED <<readVars, simVars, texts, batch_size, model, epc, j, metaVars, storeVars, ingestVars>>

\* lines 112-116: the batch request raises (transport error, error status, no
\* "data" key, an item without "embedding"): nothing is appended, the per-text
\* loop starts.
BatchFails ==
    /\ epc = "loop" /\ i < Len(texts)
    /\ epc' = "fallback" /\ j' = 1
    /\ events' = Append(events, batch_request(FALSE))
    /\ UNCHANGED <<readVars, simVars, texts, batch_size, model, i, embeddings, metaVars, storeVars, ingestVars>>

\* The fallback loop moves to the batch's next text, or back to the outer loop.
FallbackAdvance ==
    IF j = Len(Batch)
    THEN epc' = "loop" /\ i' = i + batch_size /\ j' = 0
    ELSE epc' = "fallback" /\ i' = i /\ j' = j + 1

\* lines 117-120: the single request for the batch's j-th text succeeds.
FallbackOk ==
    /\ epc = "fallback"
    /\ ~IsBlank(Batch[j])
    /\ embeddings' = Append(embeddings, ServiceVector(i + j))
    /\ events' = events \o <<fallback_request(i, j), sleep>>
    /\ FallbackAdvance
    /\ UNCHANGED <<readVars, simVars, texts, batch_size, model, metaVars, storeVars, ingestVars>>

\* lines 121-124: generate_embedding raises (a blank text at line 38, or a failed
\* request): the zero vector stands in.
FallbackFails ==
    /\ epc = "fallback"
    /\ embeddings' = Append(embeddings, ZeroVector(i + j))
    /\ events' = IF IsBlank(Batch[j]) THEN events
                 ELSE Append(events, fallback_request(i, j))
    /\ FallbackAdvance
    /\ UNCHANGED <<readVars, simVars, texts, batch_size, model, metaVars, storeVars, ingestVars>>

\* lines 126-127
EmbedReturn ==
    /\ epc = "loop" /\ i >= Len(texts)
    /\ epc' = "done"
    /\ UNCHANGED <<readVars, simVars, texts, batch_size, model, i, j, embeddings, events, metaVars,
                   storeVars, ingestVars>>

NextEmbed ==
    \/ EmbedEnter
    \/ BatchResponds
    \/ BatchFails
    \/ FallbackOk
    \/ FallbackFails
    \/ EmbedReturn

SpecEmbed == InitEmbed /\ [][NextEmbed]_vars

\* the call keeps running until it returns or raises
SpecEmbedFair == SpecEmbed /\ WF_vars(NextEmbed)

-----------------------------------------------------------------------------
(* VectorStore metadata codec: add_document encodes every metadata value   *)
(* to a string, _parse_metadata reads the strings back.                    *)

MetaKeys == {"filename", "topics"}

MetaSamples == <<
    Str(<<"h", "i">>), Str(<<>>), Str(<<"4", "2">>), Str(<<"1", ".", "5">>),
    Str(<<"t", "r", "u", "e">>), Str(<<"F", "a", "l", "s", "e">>),
    Str(<<"[", "1", "]">>), Str(<<"[", "x">>), Str(<<"{">>),
    Str(<<"1", "-", "2">>), Str(<<"-", "7">>), Str(<<"0", "0", "7">>),
    Str(<<"5", ".">>), Str(<<"a", ".", "t", "x", "t">>),
    Int_(0), Int_(42), Int_(0 - 7),
    Float(15, 1), Float(2, 0), Float(0 - 5, 1), Float(125, 2),
    Bool(TRUE), Bool(FALSE),
    List(<<>>), List(<<Int_(1), Int_(2)>>),
    List(<<Str(<<"a">>), Str(<<"b", "c">>)>>),
    List(<<Float(15, 1), Bool(TRUE)>>), List(<<List(<<Int_(1)>>)>>),
    Dict(<<>>), Dict(<< <<(<<"k">>), Int_(1)>> >>),
    Dict(<< <<(<<"k">>), List(<<Str(<<"a">>)>>)>>, <<(<<"n">>), Float(0 - 5, 1)>> >>) >>

InitMeta ==
    /\ \E a, b \in 1..Len(MetaSamples) :
          metadata = [k \in MetaKeys |->
                         IF k = "filename" THEN MetaSamples[a] ELSE MetaSamples[b]]
    /\ mpc = "input" /\ chroma_metadata = <<>> /\ parsed = <<>>
    /\ InitEmbedIdle /\ InitStoreIdle /\ InitIngestIdle
    /\ InitReadIdle /\ InitSimIdle

\* add_document, lines 73-78
MetaEncode ==
    /\ mpc = "input"
    /\ chroma_metadata' = [k \in DOMAIN metadata |-> encode_value(metadata[k])]
    /\ mpc' = "stored"
    /\ UNCHANGED <<readVars, simVars, metadata, parsed, embedVars, storeVars, ingestVars>>

\* _parse_metadata, lines 161-180
MetaParse ==
    /\ mpc = "stored"
    /\ parsed' = [k \in DOMAIN chroma_metadata |-> parse_value(chroma_metadata[k])]
    /\ mpc' = "parsed"
    /\ UNCHANGED <<readVars, simVars, metadata, chroma_metadata, embedVars, storeVars, ingestVars>>

NextMeta ==
    \/ MetaEncode
    \/ MetaParse

SpecMeta == InitMeta /\ [][NextMeta]_vars

-----------------------------------------------------------------------------
(* VectorStore and RAGRetriever on one ChromaDB collection.                *)
(* A stored vector is a tuple of integers; the collection's distance is    *)
(* the squared L2 distance (ChromaDB's default space).  A similarity score *)
(* or threshold is a fraction <<numerator, denominator>>.                  *)

MaxCoord == 1
MaxTopK == 2

Vectors == {<<x>> : x \in 0..MaxCoord}
DocTexts == {<<"a">>, <<"b">>}
DocumentIdArgs == {None, Some(<<>>), Some(<<"x">>)}
Queries == {<<>>, <<"\t">>, <<" ", "a">>}
Thresholds == {<<0, 1>>, <<7, 10>>}

StoreMetas == <<
    [source |-> Str(<<"a", ".", "t", "x", "t">>), chunk_index |-> Int_(0)],
    [source |-> Str(<<"b", ".", "t", "x", "t">>), chunk_index |-> Int_(1)] >>

RAG_TOP_K == 5
RAG_SIMILARITY_THRESHOLD == <<7, 10>>

\* a >= b for fractions with positive denominators
GE(a, b) == a[1] * b[2] >= b[1] * a[2]
IsZero(a) == a[1] = 0

RECURSIVE SqL2(_, _)
SqL2(a, b) ==
    IF a = <<>> THEN 0
    ELSE (a[1] - b[1]) * (a[1] - b[1]) + SqL2(Tail(a), Tail(b))

\* hashlib.md5(content.encode()).hexdigest()[:16]: a digest, kept as a tagged
\* copy of the content (distinct contents have distinct digests)
md5_16(content) == <<"#">> \o content

\* An id derived from the content and the chunk's metadata.
auto_id_with_metadata(content, md) == md5_16(content) \o encode_value(md["chunk_index"])

\* line 70: the generated document id
auto_document_id(content, md) == md5_16(content)

\* lines 73-78
ChromaMetadata(md) == [k \in DOMAIN md |-> encode_value(md[k])]

\* _parse_metadata
parse_metadata(cm) == [k \in DOMAIN cm |-> parse_value(cm[k])]

\* collection.add (lines 81-86): a record whose id the collection already
\* holds is ignored (ChromaDB logs "Add of existing embedding ID" and keeps the
\* stored record); a new id is inserted.
CollectionAdd(coll, id, rec) ==
    IF id \in DOMAIN coll THEN coll
    ELSE [d \in DOMAIN coll \cup {id} |-> IF d = id THEN rec ELSE coll[d]]

\* "if not document_id": None and the empty string are falsy
IsAuto(document_id) == document_id = None \/ document_id[1] = <<>>

\* add_document: what it returns or raises, and the collection afterwards.
\* storeOk: whether the ChromaDB call succeeds.
add_document(content, embedding, md, document_id, coll, storeOk) ==
    LET id == IF IsAuto(document_id)
              THEN auto_document_id(content, md)
              ELSE document_id[1]
        rec == [content |-> content, embedding |-> embedding,
                metadata |-> ChromaMetadata(md)]
    IN IF storeOk
       THEN [raised |-> FALSE, result |-> id, coll |-> CollectionAdd(coll, id, rec)]
       ELSE [raised |-> TRUE, result |-> <<>>, coll |-> coll]

\* line 126: 1.0 / (1.0 + distance)
similarity_score(distance) == <<1, 1 + distance>>

\* The filter disabled: every result passes.
passes_always(score, threshold) == TRUE

\* line 129
passes_threshold(score, threshold) == GE(score, threshold)

\* Descending by score, results of equal score in reversed order (an ascending
\* sort, reversed).
InsertAt(done, x, pos) ==
    SubSeq(done, 1, pos) \o <<x>> \o SubSeq(done, pos + 1, Len(done))

RECURSIVE sort_ascending_reversed(_)
sort_ascending_reversed(rs) ==
    IF rs = <<>> THEN <<>>
    ELSE InsertAt(sort_ascending_reversed(SubSeq(rs, 1, Len(rs) - 1)), rs[Len(rs)],
                  Cardinality({k \in 1..(Len(rs) - 1) :
                      ~GE(rs[Len(rs)].similarity_score, rs[k].similarity_score)}))

\* line 142: list.sort(key=similarity_score, reverse=True), a stable sort:
\* each result goes behind the results whose score is at least its own.
RECURSIVE sort_by_score(_)
sort_by_score(rs) ==
    IF rs = <<>> THEN <<>>
    ELSE InsertAt(sort_by_score(SubSeq(rs, 1, Len(rs) - 1)), rs[Len(rs)],
                  Cardinality({k \in 1..(Len(rs) - 1) :
                      GE(rs[k].similarity_score, rs[Len(rs)].similarity_score)}))

\* collection.query(query_embeddings=[q], n_results=top_k): the answers ChromaDB
\* may give, each the ids of the Min(top_k, count) nearest records by ascending
\* distance; records at equal distance come in either order.
QueryAnswers(coll, q, top_k) ==
    LET n == Min(top_k, Cardinality(DOMAIN coll))
        dist(id) == SqL2(q, coll[id].embedding)
    IN {r \in [1..n -> DOMAIN coll] :
          /\ \A a, b \in 1..n : a < b => r[a] # r[b] /\ dist(r[a]) <= dist(r[b])
          /\ \A id \in DOMAIN coll :
                (\A a \in 1..n : r[a] # id) => \A a \in 1..n : dist(r[a]) <= dist(id)}

RECURSIVE SelectSeq2(_, _, _)
SelectSeq2(rs, T(_, _), arg) ==
    IF rs = <<>> THEN <<>>
    ELSE (IF T(Head(rs).similarity_score, arg) THEN <<Head(rs)>> ELSE <<>>)
         \o SelectSeq2(Tail(rs), T, arg)

\* lines 133-139: one formatted result
FormatHit(doc_id, rec, distance) ==
    [id |-> doc_id, content |-> rec.content,
     metadata |-> parse_metadata(rec.metadata),
     similarity_score |-> similarity_score(distance), distance |-> distance]

\* search_similar.  raw: the ids ChromaDB answered with, in its order (read when
\* the query succeeds); a failed query (storeOk false, or a top_k of 0, which
\* ChromaDB rejects) is caught at line 147 and gives [].
search_similar(query_embedding, top_k, similarity_threshold, coll, storeOk, raw) ==
    IF ~storeOk \/ top_k <= 0 THEN <<>>
    ELSE sort_by_score(SelectSeq2(
             [n \in 1..Len(raw) |->
                 FormatHit(raw[n], coll[raw[n]],
                           SqL2(query_embedding, coll[raw[n]].embedding))],
             passes_threshold, similarity_threshold))

\* get_document_by_id: Some(document), or None (not found, or a failed read)
get_document_by_id(document_id, coll, storeOk) ==
    IF storeOk /\ document_id \in DOMAIN coll
    THEN Some([id |-> document_id,
               content |-> coll[document_id].content,
               metadata |-> parse_metadata(coll[document_id].metadata)])
    ELSE None

\* get_collection_info
get_collection_info(coll, storeOk) ==
    IF storeOk
    THEN [name |-> "hotel_training_docs", document_count |-> Cardinality(DOMAIN coll)]
    ELSE [error |-> "error"]

\* generate_embedding(text): response is None when the request fails, Some(vector)
\* otherwise.  A blank text raises at line 38, before any request.
generate_embedding(text, response) ==
    IF IsBlank(text) THEN [raised |-> TRUE, requests |-> 0, embedding |-> <<>>]
    ELSE IF response = None THEN [raised |-> TRUE, requests |-> 1, embedding |-> <<>>]
    ELSE [raised |-> FALSE, requests |-> 1, embedding |-> response[1]]

\* "x or default" for an optional number: None and 0 are falsy
PyOrInt(x, default) == IF x = None \/ x[1] = 0 THEN default ELSE x[1]
PyOrFraction(x, default) == IF x = None \/ IsZero(x[1]) THEN default ELSE x[1]

\* The exception handed on to the caller.
retrieve_reraise == [raised |-> TRUE, result |-> <<>>]

\* lines 132-134: the exception is logged, [] is returned
retrieve_on_exception == [raised |-> FALSE, result |-> <<>>]

\* lines 122-127: one result as retrieve_relevant_content returns it
FormatResult(res) ==
    [content |-> res.content, metadata |-> res.metadata,
     similarity_score |-> res.similarity_score,
     source |-> IF "source" \in DOMAIN res.metadata
                THEN res.metadata["source"]
                ELSE Str(<<"u", "n", "k", "n", "o", "w", "n">>)]

FormatResults(results) == [n \in 1..Len(results) |-> FormatResult(results[n])]

\* lines 104-134, given the outcome emb of generate_embedding(query)
RetrieveWith(emb, k, thr, coll, storeOk, raw, handler) ==
    IF emb.raised
    THEN [raised |-> handler.raised, result |-> handler.result,
          embedRequests |-> emb.requests, storeQueries |-> 0, searchArgs |-> None]
    ELSE [raised |-> FALSE,
          result |-> FormatResults(search_similar(emb.embedding, k, thr, coll,
                                                  storeOk, raw)),
          embedRequests |-> emb.requests, storeQueries |-> 1,
          searchArgs |-> Some([top_k |-> k, similarity_threshold |-> thr])]

\* retrieve_relevant_content: its outcome, the requests it sent to the embedding
\* service, the queries it sent to the store and the arguments it gave
\* search_similar (None when search_similar was not called).
retrieve_relevant_content(query, top_k, similarity_threshold, response, coll, storeOk, raw) ==
    IF IsBlank(query)
    THEN [raised |-> FALSE, result |-> <<>>, embedRequests |-> 0,
          storeQueries |-> 0, searchArgs |-> None]
    ELSE RetrieveWith(generate_embedding(query, response),
                      PyOrInt(top_k, RAG_TOP_K),
                      PyOrFraction(similarity_threshold, RAG_SIMILARITY_THRESHOLD),
                      coll, storeOk, raw, retrieve_on_exception)

OptionalTopK == {None} \cup {Some(k) : k \in 0..MaxTopK}
OptionalThreshold == {None} \cup {Some(t) : t \in Thresholds}
Responses == {None} \cup {Some(v) : v \in Vectors}
KnownIds == {md5_16(t) : t \in DocTexts} \cup {<<"x">>}

InitStore ==
    /\ collection = <<>>
    /\ lastOp = [name |-> "none"]
    /\ otherWrites = FALSE
    /\ InitEmbedIdle /\ InitMetaIdle /\ InitIngestIdle
    /\ InitReadIdle /\ InitSimIdle

\* No call is in progress.
Idle == lastOp.name = "none"

AddCall(content, embedding, md, document_id, storeOk, r) ==
    [name |-> "add", content |-> content, embedding |-> embedding, metadata |-> md,
     document_id |-> document_id, storeOk |-> storeOk, raised |-> r.raised,
     result |-> r.result, after |-> r.coll, before |-> collection]

\* VectorStore.add_document
AddDocument ==
    /\ Idle
    /\ \E content \in DocTexts, embedding \in Vectors, m \in 1..Len(StoreMetas),
          document_id \in DocumentIdArgs, storeOk \in BOOLEAN :
         lastOp' = AddCall(content, embedding, StoreMetas[m], document_id, storeOk,
                       add_document(content, embedding, StoreMetas[m], document_id,
                                    collection, storeOk))
    /\ collection' = lastOp'.after
    /\ otherWrites' = (otherWrites \/ (~lastOp'.raised /\ ~IsAuto(lastOp'.document_id)))
    /\ UNCHANGED <<readVars, simVars, embedVars, metaVars, ingestVars>>

\* VectorStore.search_similar
SearchSimilar ==
    /\ Idle
    /\ \E q \in Vectors, top_k \in 0..MaxTopK, threshold \in Thresholds,
       storeOk \in BOOLEAN :
      \E raw \in IF storeOk /\ top_k > 0
                 THEN QueryAnswers(collection, q, top_k) ELSE {<<>>} :
        /\ lastOp' = [name |-> "search", query_embedding |-> q, top_k |-> top_k,
                      similarity_threshold |-> threshold, storeOk |-> storeOk,
                      raw |-> raw, raised |-> FALSE,
                      result |-> search_similar(q, top_k, threshold, collection,
                                                storeOk, raw),
                      before |-> collection]
        /\ UNCHANGED <<readVars, simVars, collection, otherWrites, embedVars, metaVars, ingestVars>>

\* VectorStore.get_document_by_id
GetDocumentById ==
    /\ Idle
    /\ \E document_id \in KnownIds, storeOk \in BOOLEAN :
        /\ lastOp' = [name |-> "get", document_id |-> document_id,
                      storeOk |-> storeOk, raised |-> FALSE,
                      result |-> get_document_by_id(document_id, collection, storeOk),
                      before |-> collection]
        /\ UNCHANGED <<readVars, simVars, collection, otherWrites, embedVars, metaVars, ingestVars>>

\* VectorStore.get_collection_info
GetCollectionInfo ==
    /\ Idle
    /\ \E storeOk \in BOOLEAN :
        /\ lastOp' = [name |-> "info", storeOk |-> storeOk, raised |-> FALSE,
                      result |-> get_collection_info(collection, storeOk),
                      before |-> collection]
        /\ UNCHANGED <<readVars, simVars, collection, otherWrites, embedVars, metaVars, ingestVars>>

\* The answers ChromaDB may give to the query retrieve_relevant_content sends
\* (<<>> when it sends none, or the query fails).
RetrieveAnswers(query, emb, k, coll, storeOk) ==
    IF ~IsBlank(query) /\ ~emb.raised /\ storeOk /\ k > 0
    THEN QueryAnswers(coll, emb.embedding, k) ELSE {<<>>}

RetrieveCall(query, top_k, threshold, response, storeOk, r) ==
    [name |-> "retrieve", query |-> query, top_k |-> top_k,
     similarity_threshold |-> threshold, response |-> response, storeOk |-> storeOk,
     raised |-> r.raised, result |-> r.result, embedRequests |-> r.embedRequests,
     storeQueries |-> r.storeQueries, searchArgs |-> r.searchArgs,
     before |-> collection]

\* RAGRetriever.retrieve_relevant_content
Retrieve ==
    /\ Idle
    /\ \E query \in Queries, top_k \in OptionalTopK, threshold \in OptionalThreshold,
          response \in Responses, storeOk \in BOOLEAN :
         \E raw \in RetrieveAnswers(query, generate_embedding(query, response),
                                    PyOrInt(top_k, RAG_TOP_K), collection, storeOk) :
           lastOp' = RetrieveCall(query, top_k, threshold, response, storeOk,
                         retrieve_relevant_content(query, top_k, threshold, response,
                                                   collection, storeOk, raw))
    /\ UNCHANGED <<readVars, simVars, collection, otherWrites, embedVars, metaVars, ingestVars>>

\* The call returns to its caller.
ReturnToCaller ==
    /\ ~Idle
    /\ lastOp' = [name |-> "none"]
    /\ UNCHANGED <<readVars, simVars, collection, otherWrites, embedVars, metaVars, ingestVars>>

Next ==
    \/ AddDocument
    \/ SearchSimilar
    \/ GetDocumentById
    \/ GetCollectionInfo
    \/ Retrieve
    \/ ReturnToCaller

Spec == InitStore /\ [][Next]_vars

\* collection.update (line 241): an id the collection does not hold is
\* ignored; the fields given replace the stored ones, metadata key by key
CollectionUpdate(coll, id, content, embedding, cm) ==
    IF id \notin DOMAIN coll THEN coll
    ELSE [coll EXCEPT ![id] =
             [content |-> OrElse(content, @.content),
              embedding |-> OrElse(embedding, @.embedding),
              metadata |-> IF cm = None THEN @.metadata
                           ELSE [k \in DOMAIN @.metadata \cup DOMAIN cm[1] |->
                                   IF k \in DOMAIN cm[1] THEN cm[1][k]
                                   ELSE @.metadata[k]]]]

\* lines 231-238: the metadata in the store's format, when given
OptionalChromaMetadata(md) ==
    IF md = None THEN None ELSE Some(ChromaMetadata(md[1]))

\* update_document: content, embedding and md are None when not given
update_document(document_id, content, embedding, md, coll, storeOk) ==
    IF content = None /\ embedding = None /\ md = None
    THEN [raised |-> FALSE, result |-> FALSE, coll |-> coll]
    ELSE IF storeOk
    THEN [raised |-> FALSE, result |-> TRUE,
          coll |-> CollectionUpdate(coll, document_id, content, embedding,
                                    OptionalChromaMetadata(md))]
    ELSE [raised |-> FALSE, result |-> FALSE, coll |-> coll]

\* collection.delete (line 265)
CollectionDelete(coll, ids) == [d \in DOMAIN coll \ ids |-> coll[d]]

\* The store's exception reaches the caller.
delete_document_reraise(document_id, coll, storeOk) ==
    [raised |-> ~storeOk, result |-> storeOk,
     coll |-> IF storeOk THEN CollectionDelete(coll, {document_id}) ELSE coll]

\* delete_document
delete_document(document_id, coll, storeOk) ==
    IF storeOk
    THEN [raised |-> FALSE, result |-> TRUE,
          coll |-> CollectionDelete(coll, {document_id})]
    ELSE [raised |-> FALSE, result |-> FALSE, coll |-> coll]

\* clear_collection: every record is deleted, or the store fails and False
\* is returned with the collection as it was
clear_collection(coll, storeOk) ==
    IF storeOk
    THEN [raised |-> FALSE, result |-> TRUE,
          coll |-> CollectionDelete(coll, DOMAIN coll)]
    ELSE [raised |-> FALSE, result |-> FALSE, coll |-> coll]

\* lines 326-332: the backup data (created_at left out)
BackupData(coll) ==
    [ids |-> DOMAIN coll,
     documents |-> [d \in DOMAIN coll |-> coll[d].content],
     metadatas |-> [d \in DOMAIN coll |-> coll[d].metadata]]

\* backup_collection: what it returns and the file it wrote (None when it
\* wrote none).  fileOk: whether the backup file can be written.
backup_collection(coll, storeOk, fileOk) ==
    IF storeOk /\ fileOk
    THEN [raised |-> FALSE, result |-> TRUE, written |-> Some(BackupData(coll))]
    ELSE [raised |-> FALSE, result |-> FALSE, written |-> None]

OptionalContents == {None, Some(<<"b">>)}
OptionalEmbeddings == {None, Some(<<0>>)}
OptionalMetas == {None, Some(StoreMetas[2])}

UpdateCall(document_id, content, embedding, md, storeOk, r) ==
    [name |-> "update", document_id |-> document_id, content |-> content,
     embedding |-> embedding, metadata |-> md, storeOk |-> storeOk,
     raised |-> r.raised, result |-> r.result, after |-> r.coll,
     before |-> collection]

\* VectorStore.update_document
UpdateDocument ==
    /\ Idle
    /\ \E document_id \in KnownIds, content \in OptionalContents,
          embedding \in OptionalEmbeddings, md \in OptionalMetas,
          storeOk \in BOOLEAN :
         lastOp' = UpdateCall(document_id, content, embedding, md, storeOk,
                       update_document(document_id, content, embedding, md,
                                       collection, storeOk))
    /\ collection' = lastOp'.after
    /\ UNCHANGED <<readVars, simVars, otherWrites, embedVars, metaVars, ingestVars>>

DeleteCall(document_id, storeOk, r) ==
    [name |-> "delete", document_id |-> document_id, storeOk |-> storeOk,
     raised |-> r.raised, result |-> r.result, after |-> r.coll,
     before |-> collection]

\* VectorStore.delete_document
DeleteDocument ==
    /\ Idle
    /\ \E document_id \in KnownIds, storeOk \in BOOLEAN :
         lastOp' = DeleteCall(document_id, storeOk,
                       delete_document(document_id, collection, storeOk))
    /\ collection' = lastOp'.after
    /\ UNCHANGED <<readVars, simVars, otherWrites, embedVars, metaVars, ingestVars>>

ClearCall(storeOk, r) ==
    [name |-> "clear", storeOk |-> storeOk, raised |-> r.raised,
     result |-> r.result, after |-> r.coll, before |-> collection]

\* VectorStore.clear_collection
ClearCollection ==
    /\ Idle
    /\ \E storeOk \in BOOLEAN :
         lastOp' = ClearCall(storeOk, clear_collection(collection, storeOk))
    /\ collection' = lastOp'.after
    /\ UNCHANGED <<readVars, simVars, otherWrites, embedVars, metaVars, ingestVars>>

BackupCall(storeOk, fileOk, r) ==
    [name |-> "backup", storeOk |-> storeOk, fileOk |-> fileOk,
     raised |-> r.raised, result |-> r.result, written |-> r.written,
     before |-> collection]

\* VectorStore.backup_collection
BackupCollection ==
    /\ Idle
    /\ \E storeOk \in BOOLEAN, fileOk \in BOOLEAN :
         lastOp' = BackupCall(storeOk, fileOk,
                       backup_collection(collection, storeOk, fileOk))
    /\ UNCHANGED <<readVars, simVars, collection, otherWrites, embedVars, metaVars, ingestVars>>

NextStore ==
    \/ AddDocument
    \/ SearchSimilar
    \/ GetDocumentById
    \/ GetCollectionInfo
    \/ UpdateDocument
    \/ DeleteDocument
    \/ ClearCollection
    \/ BackupCollection
    \/ ReturnToCaller

SpecStore == InitStore /\ [][NextStore]_vars

-----------------------------------------------------------------------------
(* TextChunker.  A chunk is a record: text is the string the code holds;    *)
(* the other fields record how the overlap steps built it:                 *)
(*   pre   the chunk as it was handed to the last overlap step             *)
(*   ov    the overlap text that step put in front of it                   *)
(*   body  the chunk before any overlap step touched it                    *)
(*   layers  how many overlap texts have been put in front of it           *)
(* A chunker result is [raised |-> BOOLEAN, chunks |-> sequence of chunks].*)

MaxTextLen == 7
Alphabet == {"a", " ", "."}
ChunkSizes == {1, 2, 4}
ChunkOverlaps == {0, 1, 4}
ChunkMethods == {"recursive", "sentence", "paragraph"}

Fresh(s) == [text |-> s, pre |-> s, ov |-> <<>>, body |-> s, layers |-> 0]
Returned(cs) == [raised |-> FALSE, chunks |-> cs]
Raised == [raised |-> TRUE, chunks |-> <<>>]

\* chunk with its text (and the text it was built from) stripped
StripChunk(c) == [c EXCEPT !.text = strip(c.text), !.body = strip(c.body)]

\* [chunk.strip() for chunk in chunks if chunk.strip()]
RECURSIVE StripNonBlank(_)
StripNonBlank(cs) ==
    IF cs = <<>> THEN <<>>
    ELSE IF IsBlank(Head(cs).text) THEN StripNonBlank(Tail(cs))
    ELSE <<StripChunk(Head(cs))>> \o StripNonBlank(Tail(cs))

\* position of the first occurrence of sep in s at or after p, 0 when none
RECURSIVE FindSep(_, _, _)
FindSep(s, sep, p) ==
    IF p + Len(sep) - 1 > Len(s) THEN 0
    ELSE IF SubSeq(s, p, p + Len(sep) - 1) = sep THEN p
    ELSE FindSep(s, sep, p + 1)

\* "separator in text"
Occurs(sep, s) == FindSep(s, sep, 1) # 0

\* str.split(separator)
RECURSIVE split(_, _)
split(s, sep) ==
    LET p == FindSep(s, sep, 1)
    IN IF p = 0 THEN <<s>>
       ELSE <<SubSeq(s, 1, p - 1)>> \o split(SubSeq(s, p + Len(sep), Len(s)), sep)

\* end of the whitespace run that starts at p (p - 1 when s[p] is no whitespace)
RECURSIVE RunEnd(_, _)
RunEnd(s, p) ==
    IF p <= Len(s) /\ s[p] \in Whitespace THEN RunEnd(s, p + 1) ELSE p - 1

\* re.sub(r'\s+', ' ', text)
RECURSIVE collapse_whitespace(_)
collapse_whitespace(s) ==
    IF s = <<>> THEN <<>>
    ELSE IF Head(s) \in Whitespace
         THEN <<" ">> \o collapse_whitespace(SubSeq(s, RunEnd(s, 1) + 1, Len(s)))
         ELSE <<Head(s)>> \o collapse_whitespace(Tail(s))

\* the newlines of s at positions a..b
Newlines(s, a, b) == {q \in a..b : s[q] = "\n"}

\* re.sub(r'\n\s*\n\s*\n+', '\n\n', text): a whitespace run that starts with a
\* newline and holds three newlines or more is replaced, up to its last
\* newline, by two newlines
RECURSIVE collapse_newlines(_)
collapse_newlines(s) ==
    IF s = <<>> THEN <<>>
    ELSE LET nl == Newlines(s, 1, RunEnd(s, 1))
             last == CHOOSE q \in nl : \A r \in nl : r <= q
         IN IF Head(s) = "\n" /\ Cardinality(nl) >= 3
            THEN <<"\n", "\n">> \o collapse_newlines(SubSeq(s, last + 1, Len(s)))
            ELSE <<Head(s)>> \o collapse_newlines(Tail(s))

\* A cleaning that trims the ends and leaves the whitespace runs inside.
clean_text_trim_only(s) == strip(s)

\* _clean_text
clean_text(s) == strip(collapse_newlines(collapse_whitespace(s)))

\* re.split(r'(?<=[.!?])\s+', text): the text is cut at every whitespace run
\* that follows '.', '!' or '?'
RECURSIVE SentenceCut(_, _)
SentenceCut(s, p) ==
    IF p > Len(s) THEN 0
    ELSE IF p > 1 /\ s[p] \in Whitespace /\ s[p - 1] \in {".", "!", "?"} THEN p
    ELSE SentenceCut(s, p + 1)

RECURSIVE split_sentences(_)
split_sentences(s) ==
    LET p == SentenceCut(s, 1)
    IN IF p = 0 THEN <<s>>
       ELSE <<SubSeq(s, 1, p - 1)>> \o split_sentences(SubSeq(s, RunEnd(s, p) + 1, Len(s)))

\* first position at or after p (1-based) that holds a blank, Len(s) + 1 when none
RECURSIVE NextBlank(_, _)
NextBlank(s, p) ==
    IF p > Len(s) \/ s[p] = " " THEN p ELSE NextBlank(s, p + 1)

\* _get_overlap_text (lines 297-322); start_pos is 0-based in the code, p is
\* the same position 1-based
get_overlap_text(s, overlap_size) ==
    IF Len(s) <= overlap_size THEN s
    ELSE LET p == NextBlank(s, Len(s) - overlap_size + 1)
             start == IF p <= Len(s) THEN p + 1 ELSE p
         IN strip(SubSeq(s, start, Len(s)))

\* lines 284-291: chunk c with the overlap of the chunk before it in front
Overlapped(prev, c, overlap) ==
    LET o == get_overlap_text(prev.text, overlap)
    IN [text |-> IF o # <<>> THEN o \o <<" ">> \o c.text ELSE c.text,
        pre |-> c.text, ov |-> o, body |-> c.body,
        layers |-> IF o # <<>> THEN c.layers + 1 ELSE c.layers]

\* _apply_overlap
apply_overlap(cs, overlap) ==
    IF Len(cs) <= 1 \/ overlap <= 0 THEN cs
    ELSE [n \in 1..Len(cs) |->
             IF n = 1 THEN cs[1] ELSE Overlapped(cs[n - 1], cs[n], overlap)]

\* first position q in lo+1..hi holding a blank, searched downwards from hi;
\* lo when there is none (lines 250-252, positions 0-based as in the code)
RECURSIVE BlankBefore(_, _, _)
BlankBefore(s, hi, lo) ==
    IF hi > lo /\ s[hi + 1] # " " THEN BlankBefore(s, hi - 1, lo) ELSE hi

\* lines 254-256
ChunkEnd(s, start, end) ==
    IF BlankBefore(s, end, start) = start THEN end ELSE BlankBefore(s, end, start)

\* text[start:chunk_end] as _chunk_by_characters appends it; prev_end is where
\* the chunk before it ended, so the characters start..prev_end-1 are read twice
CharChunk(s, start, chunk_end, prev_end) ==
    [text |-> SubSeq(s, start + 1, chunk_end),
     pre |-> SubSeq(s, start + 1, chunk_end),
     ov |-> SubSeq(s, start + 1, prev_end),
     body |-> SubSeq(s, Min(prev_end, chunk_end) + 1, chunk_end),
     layers |-> IF start < prev_end THEN 1 ELSE 0]

\* _chunk_by_characters, the while loop from position start on.  When the
\* next start is not beyond this one (chunk_overlap is at least the length
\* of the chunk) the loop never reaches the end of the text: with the same
\* start it appends the same chunk until memory is exhausted, with a smaller
\* one text[chunk_end] ends in an IndexError.
RECURSIVE chunk_by_characters_from(_, _, _, _, _, _)
chunk_by_characters_from(s, start, prev_end, acc, size, overlap) ==
    IF start >= Len(s) THEN Returned(acc)
    ELSE IF start + size >= Len(s)
    THEN Returned(Append(acc, CharChunk(s, start, Len(s), prev_end)))
    ELSE IF ChunkEnd(s, start, start + size) - overlap <= start THEN Raised
    ELSE chunk_by_characters_from(s, ChunkEnd(s, start, start + size) - overlap,
             ChunkEnd(s, start, start + size),
             Append(acc, CharChunk(s, start, ChunkEnd(s, start, start + size), prev_end)),
             size, overlap)

\* _chunk_by_characters
chunk_by_characters(s, size, overlap) ==
    chunk_by_characters_from(s, 0, 0, <<>>, size, overlap)

\* lines 89-99
separators == << <<"\n", "\n">>, <<"\n">>, <<".", " ">>, <<"!", " ">>, <<"?", " ">>,
                 <<";", " ">>, <<",", " ">>, <<" ">> >>

\* "if current_chunk: chunks.append(current_chunk)"
AppendIfAny(acc, current) ==
    IF current # <<>> THEN Append(acc, Fresh(current)) ELSE acc

\* lines 131-134
TestChunk(current, sep, part) ==
    IF current # <<>> THEN current \o sep \o part ELSE part

\* lines 155-159 and 199, 226
OverlapIfSeveral(cs, overlap) ==
    IF Len(cs) > 1 THEN apply_overlap(cs, overlap) ELSE cs

RECURSIVE chunk_recursively(_, _, _)
RECURSIVE split_loop(_, _, _, _, _, _, _)
RECURSIVE try_separators(_, _, _, _)

\* lines 143-149, given the outcome sub of _chunk_recursively(part)
SplitRecurse(sub, parts, k, acc, sep, size, overlap) ==
    IF sub.raised THEN Raised
    ELSE split_loop(parts, k + 1, acc \o sub.chunks, <<>>, sep, size, overlap)

\* _split_by_separator, the for loop from part k on, and lines 151-159
split_loop(parts, k, acc, current, sep, size, overlap) ==
    IF k > Len(parts)
    THEN Returned(OverlapIfSeveral(AppendIfAny(acc, current), overlap))
    ELSE IF Len(TestChunk(current, sep, parts[k])) <= size
    THEN split_loop(parts, k + 1, acc, TestChunk(current, sep, parts[k]),
                    sep, size, overlap)
    ELSE IF Len(parts[k]) > size
    THEN SplitRecurse(chunk_recursively(parts[k], size, overlap), parts, k,
                      AppendIfAny(acc, current), sep, size, overlap)
    ELSE split_loop(parts, k + 1, AppendIfAny(acc, current), parts[k],
                    sep, size, overlap)

\* _split_by_separator
split_by_separator(s, sep, size, overlap) ==
    split_loop(split(s, sep), 1, <<>>, <<>>, sep, size, overlap)

\* lines 104-106, given the outcome r of _split_by_separator
TryNext(r, s, k, size, overlap) ==
    IF r.raised \/ r.chunks # <<>> THEN r ELSE try_separators(s, k + 1, size, overlap)

\* lines 101-110: the separators from the k-th on, then the fallback
try_separators(s, k, size, overlap) ==
    IF k > Len(separators) THEN chunk_by_characters(s, size, overlap)
    ELSE IF Occurs(separators[k], s)
    THEN TryNext(split_by_separator(s, separators[k], size, overlap), s, k,
                 size, overlap)
    ELSE try_separators(s, k + 1, size, overlap)

\* line 112
StripResult(r) == IF r.raised THEN Raised ELSE Returned(StripNonBlank(r.chunks))

\* _chunk_recursively
chunk_recursively(s, size, overlap) ==
    IF Len(s) <= size
    THEN Returned(IF IsBlank(s) THEN <<>> ELSE <<Fresh(s)>>)
    ELSE StripResult(try_separators(s, 1, size, overlap))

RECURSIVE sentence_loop(_, _, _, _, _, _)

SentenceRecurse(sub, sentences, k, acc, size, overlap) ==
    IF sub.raised THEN Raised
    ELSE sentence_loop(sentences, k + 1, acc \o sub.chunks, <<>>, size, overlap)

\* _chunk_by_sentences, the for loop from sentence k on, and lines 196-199
sentence_loop(sentences, k, acc, current, size, overlap) ==
    IF k > Len(sentences)
    THEN Returned(OverlapIfSeveral(AppendIfAny(acc, current), overlap))
    ELSE IF Len(TestChunk(current, <<" ">>, sentences[k])) <= size
    THEN sentence_loop(sentences, k + 1, acc,
                       TestChunk(current, <<" ">>, sentences[k]), size, overlap)
    ELSE IF Len(sentences[k]) > size
    THEN SentenceRecurse(chunk_recursively(sentences[k], size, overlap), sentences, k,
                         AppendIfAny(acc, current), size, overlap)
    ELSE sentence_loop(sentences, k + 1, AppendIfAny(acc, current), sentences[k],
                       size, overlap)

\* _chunk_by_sentences
chunk_by_sentences(s, size, overlap) ==
    sentence_loop(split_sentences(s), 1, <<>>, <<>>, size, overlap)

RECURSIVE paragraph_loop(_, _, _, _, _)

ParagraphRecurse(sub, paragraphs, k, acc, size, overlap) ==
    IF sub.raised THEN Raised
    ELSE paragraph_loop(paragraphs, k + 1, acc \o sub.chunks, size, overlap)

\* _chunk_by_paragraphs, the for loop from paragraph k on, and line 226
paragraph_loop(paragraphs, k, acc, size, overlap) ==
    IF k > Len(paragraphs) THEN Returned(OverlapIfSeveral(acc, overlap))
    ELSE IF strip(paragraphs[k]) = <<>>
    THEN paragraph_loop(paragraphs, k + 1, acc, size, overlap)
    ELSE IF Len(strip(paragraphs[k])) <= size
    THEN paragraph_loop(paragraphs, k + 1, Append(acc, Fresh(strip(paragraphs[k]))),
                        size, overlap)
    ELSE ParagraphRecurse(chunk_recursively(strip(paragraphs[k]), size, overlap),
                          paragraphs, k, acc, size, overlap)

\* _chunk_by_paragraphs
chunk_by_paragraphs(s, size, overlap) ==
    paragraph_loop(split(s, <<"\n", "\n">>), 1, <<>>, size, overlap)

\* lines 45-51
ChunkCleaned(cleaned, method, size, overlap) ==
    IF method = "sentence" THEN chunk_by_sentences(cleaned, size, overlap)
    ELSE IF method = "paragraph" THEN chunk_by_paragraphs(cleaned, size, overlap)
    ELSE chunk_recursively(cleaned, size, overlap)

\* chunk_text
chunk_text(s, method, size, overlap) ==
    IF IsBlank(s) THEN Returned(<<>>)
    ELSE ChunkCleaned(clean_text(s), method, size, overlap)

ChunkTexts == UNION {[1..n -> Alphabet] : n \in 0..MaxTextLen}

InitChunk ==
    /\ input_text \in ChunkTexts
    /\ chunk_method \in ChunkMethods
    /\ chunk_size \in ChunkSizes
    /\ chunk_overlap \in ChunkOverlaps
    /\ cpc = "called" /\ chunks = <<>>
    /\ InitProcessIdle /\ InitRagIdle
    /\ InitEmbedIdle /\ InitMetaIdle /\ InitStoreIdle
    /\ InitReadIdle /\ InitSimIdle

\* the outcome r of chunk_text reaches the caller
ChunkOutcome(r) ==
    /\ cpc' = IF r.raised THEN "raised" ELSE "returned"
    /\ chunks' = r.chunks

\* TextChunker.chunk_text
ChunkText ==
    /\ cpc = "called"
    /\ ChunkOutcome(chunk_text(input_text, chunk_method, chunk_size, chunk_overlap))
    /\ UNCHANGED <<readVars, simVars, input_text, chunk_method, configVars, procVars, ragVars, embedVars,
                 metaVars, storeVars>>

NextChunk == ChunkText

SpecChunk == InitChunk /\ [][NextChunk]_vars

-----------------------------------------------------------------------------
(* DocumentProcessor.  The document root is the sorted list of the files   *)
(* _find_document_files returns.  A file is a record: its path, its text,  *)
(* and what each access to it during the run does:                         *)
(*   hashOk      the file opens when line 72 hashes it                     *)
(*   readOk      read_document extracts its text                           *)
(*   statOk      _create_base_metadata gets its stat and relative path     *)
(*   metaHashOk  the file opens when line 197 hashes it again              *)

MaxFiles == 2
FileContents == {<<"a">>, <<"a", "b">>}
FilePaths == << <<"f", "1">>, <<"f", "2">>, <<"f", "3">>, <<"f", "4">> >>

FileStates == [content : FileContents, hashOk : BOOLEAN, readOk : BOOLEAN,
               statOk : BOOLEAN, metaHashOk : BOOLEAN]

Roots == UNION {[1..n -> FileStates] : n \in 0..MaxFiles}

\* hashlib.md5(...).hexdigest(): a digest, kept as a tagged copy of its input
md5(bytes) == <<"#">> \o bytes

\* _calculate_file_hash: the digest of the bytes, or of the path when the file
\* cannot be opened (lines 237-240)
calculate_file_hash(path, f, opens) ==
    IF opens THEN md5(f.content) ELSE md5(path)

\* lines 122-134: the document made of chunk n (chunk_index n - 1)
DocumentChunk(path, f, cs, n) ==
    [content |-> strip(cs[n].text),
     metadata |-> [source |-> Str(path),
                   file_hash |-> Str(calculate_file_hash(path, f, f.metaHashOk)),
                   chunk_index |-> Int_(n - 1),
                   total_chunks |-> Int_(Len(cs))],
     source |-> path]

\* lines 119-134
RECURSIVE DocumentChunksFrom(_, _, _, _)
DocumentChunksFrom(path, f, cs, n) ==
    IF n > Len(cs) THEN <<>>
    ELSE IF IsBlank(cs[n].text) THEN DocumentChunksFrom(path, f, cs, n + 1)
    ELSE <<DocumentChunk(path, f, cs, n)>> \o DocumentChunksFrom(path, f, cs, n + 1)

\* lines 116-137, given the outcome r of chunk_text; an exception of the
\* chunker is caught at line 139
ChunksToDocuments(path, f, r) ==
    IF r.raised THEN <<>> ELSE DocumentChunksFrom(path, f, r.chunks, 1)

\* process_document: a failed read gives no content (line 108), a failure
\* while the metadata is built is caught (line 139); both return []
process_document(path, f, size, overlap) ==
    IF ~f.readOk \/ IsBlank(f.content) \/ ~f.statOk THEN <<>>
    ELSE ChunksToDocuments(path, f, chunk_text(f.content, "recursive", size, overlap))

\* The batch stops at a file that gave nothing.
abort_batch(k, n) == n + 1

\* the file the loop turns to after file k of n gave no chunks (lines 84-89)
after_empty_document(k, n) == k + 1

\* lines 78-85, given the chunks of file k
RECURSIVE process_files(_, _, _, _, _)
ProcessedFile(files, k, st, file_hash, document_chunks, size, overlap) ==
    IF document_chunks # <<>>
    THEN process_files(files, k + 1,
             [st EXCEPT !.all_documents = @ \o document_chunks,
                        !.processed_documents = @ \cup {file_hash}],
             size, overlap)
    ELSE process_files(files, after_empty_document(k, Len(files)), st, size, overlap)

\* lines 72-75, given the hash of file k
HashedFile(files, k, st, file_hash, size, overlap) ==
    IF file_hash \in st.processed_documents
    THEN process_files(files, k + 1, [st EXCEPT !.skipped = @ \cup {k}],
                       size, overlap)
    ELSE ProcessedFile(files, k, st, file_hash,
                       process_document(FilePaths[k], files[k], size, overlap),
                       size, overlap)

\* process_all_documents, the for loop from file k on (lines 67-92).  st holds
\* all_documents and processed_documents, and the files the hash check skipped
process_files(files, k, st, size, overlap) ==
    IF k > Len(files) THEN st
    ELSE HashedFile(files, k, st,
                    calculate_file_hash(FilePaths[k], files[k], files[k].hashOk),
                    size, overlap)

\* process_all_documents on a new DocumentProcessor
process_all_documents(files, size, overlap) ==
    process_files(files, 1,
                  [all_documents |-> <<>>, processed_documents |-> {},
                   skipped |-> {}],
                  size, overlap)

InitProcess ==
    /\ root \in Roots
    /\ chunk_size \in {1, 1000} /\ chunk_overlap \in {0, 200}
    /\ ppc = "called" /\ all_documents = <<>>
    /\ processed_documents = {} /\ skipped = {}
    /\ previous_documents = <<>>
    /\ InitChunkIdle /\ InitRagIdle /\ InitEmbedIdle /\ InitMetaIdle /\ InitStoreIdle
    /\ InitReadIdle /\ InitSimIdle

\* the outcome st of process_all_documents reaches the caller
ProcessOutcome(st) ==
    /\ all_documents' = st.all_documents
    /\ processed_documents' = st.processed_documents
    /\ skipped' = st.skipped

\* DocumentProcessor.process_all_documents
ProcessAllDocuments ==
    /\ ppc = "called"
    /\ ppc' = "returned"
    /\ ProcessOutcome(process_all_documents(root, chunk_size, chunk_overlap))
    /\ UNCHANGED <<readVars, simVars, root, previous_documents, configVars, chunkVars, ragVars,
                   embedVars, metaVars, storeVars>>

NextProcess == ProcessAllDocuments

SpecProcess == InitProcess /\ [][NextProcess]_vars

\* A second call on the same processor over the same files.  Each call opens
\* and reads the files anew, so what an access does may differ between calls.
RerunRoots ==
    {r \in Roots : /\ Len(r) <= 2
                   /\ \A k \in DOMAIN r : r[k].statOk /\ r[k].metaHashOk}

\* the roots that hold the same files with the same bytes as r
SameFiles(r) ==
    {r2 \in RerunRoots :
        /\ Len(r2) = Len(r)
        /\ \A k \in DOMAIN r : r2[k].content = r[k].content}

InitReprocess ==
    /\ root \in RerunRoots
    /\ chunk_size \in {1, 1000} /\ chunk_overlap = 0
    /\ ppc = "called" /\ all_documents = <<>>
    /\ processed_documents = {} /\ skipped = {}
    /\ previous_documents = <<>>
    /\ InitChunkIdle /\ InitRagIdle /\ InitEmbedIdle /\ InitMetaIdle /\ InitStoreIdle
    /\ InitReadIdle /\ InitSimIdle

\* process_all_documents on a processor that has run before: the set
\* processed_documents is the one the earlier call left (line 35 runs once)
process_all_documents_again(files, processed, size, overlap) ==
    process_files(files, 1,
                  [all_documents |-> <<>>, processed_documents |-> processed,
                   skipped |-> {}],
                  size, overlap)

\* DocumentProcessor.process_all_documents, called a second time
ProcessAgain ==
    /\ ppc = "returned"
    /\ ppc' = "returned_again"
    /\ root' \in SameFiles(root)
    /\ previous_documents' = all_documents
    /\ ProcessOutcome(process_all_documents_again(root', processed_documents,
                                                  chunk_size, chunk_overlap))
    /\ UNCHANGED <<readVars, simVars, configVars, chunkVars, ragVars, embedVars, metaVars, storeVars>>

NextReprocess ==
    \/ ProcessAllDocuments
    \/ ProcessAgain

SpecReprocess == InitReprocess /\ [][NextReprocess]_vars


-----------------------------------------------------------------------------
(* RAGRetriever over its collection: construction (_initialize_if_needed), *)
(* population (_initialize_vector_store), refresh_vector_store and         *)
(* add_new_document.  lastOp holds the call in progress or the last one    *)
(* that returned.  What the embedding service and the store do with each   *)
(* document of a population is fixed when the population starts.           *)

\* a file every access to which succeeds
Readable(content) ==
    [content |-> content, hashOk |-> TRUE, readOk |-> TRUE, statOk |-> TRUE,
     metaHashOk |-> TRUE]

Unreadable(content) == [Readable(content) EXCEPT !.readOk = FALSE]

RagRoots ==
    {<<>>,
     <<Readable(<<"a">>)>>,
     <<Readable(<<"a", "b">>)>>,
     <<Readable(<<"a">>), Readable(<<"a", "b">>)>>,
     <<Unreadable(<<"a">>), Readable(<<"a", "b">>)>>}

\* a record left in the collection by an earlier run
StaleRecord(content) ==
    [content |-> content, embedding |-> <<0>>,
     metadata |-> ChromaMetadata(StoreMetas[2])]

CollectionOf(content) ==
    [d \in {md5_16(content)} |-> StaleRecord(content)]

InitialCollections == {<<>>, CollectionOf(<<"z">>), CollectionOf(<<"a">>)}

PopulateOutcomes == {"ok", "embed_fails", "store_fails"}
AdhocTexts == {<<" ">>, <<"c">>}

\* the vector the embedding service returns for a text
ServiceEmbedding(text) == <<Len(text) % (MaxCoord + 1)>>

\* collection_info.get("document_count", 0)
document_count_or_zero(info) ==
    IF "document_count" \in DOMAIN info THEN info.document_count ELSE 0

\* Population starts whatever the collection reports.
always_initialize(info) == TRUE

\* line 41: the collection is taken to be empty
needs_initialization(info) == document_count_or_zero(info) = 0

\* the answer of the embedding service to the request for one document
PopulateResponse(doc, outcome) ==
    IF outcome = "embed_fails" THEN None ELSE Some(ServiceEmbedding(doc.content))

\* lines 69-74, given the outcome emb of generate_embedding
StoreEmbedded(doc, emb, coll, storeOk) ==
    IF emb.raised THEN [raised |-> TRUE, coll |-> coll]
    ELSE add_document(doc.content, emb.embedding, doc.metadata, None, coll, storeOk)

\* lines 68-76: one document is embedded and stored
populate_document(doc, outcome, coll) ==
    StoreEmbedded(doc, generate_embedding(doc.content, PopulateResponse(doc, outcome)),
                  coll, outcome # "store_fails")

\* The population stops at a document that failed.
abort_populating(k, n) == n + 1

\* lines 75-76: the exception is logged and the loop goes on with the next
\* document
after_failed_document(k, n) == k + 1

\* add_new_document, given the outcome emb of generate_embedding
AddEmbedded(content, md, emb, coll, storeOk) ==
    IF emb.raised THEN [raised |-> FALSE, result |-> FALSE, coll |-> coll]
    ELSE LET r == add_document(content, emb.embedding, md, None, coll, storeOk)
         IN  [raised |-> FALSE, result |-> ~r.raised, coll |-> r.coll]

\* True whatever the store did.
add_new_document_unchecked(content, md, response, coll, storeOk) ==
    [raised |-> FALSE, result |-> TRUE,
     coll |-> AddEmbedded(content, md, generate_embedding(content, response),
                          coll, storeOk).coll]

\* add_new_document: True when the document was embedded and stored, False
\* when either raised (lines 161-163)
add_new_document(content, md, response, coll, storeOk) ==
    AddEmbedded(content, md, generate_embedding(content, response), coll, storeOk)

InitRag ==
    /\ root \in RagRoots
    /\ chunk_size \in {1, 1000} /\ chunk_overlap = 0
    /\ collection \in InitialCollections
    /\ lastOp = [name |-> "none"]
    /\ otherWrites = FALSE
    /\ rpc = "uninitialized" /\ documents = <<>> /\ didx = 0 /\ outcomes = <<>>
    /\ ppc = "idle" /\ all_documents = <<>>
    /\ processed_documents = {} /\ skipped = {}
    /\ previous_documents = <<>>
    /\ InitChunkIdle /\ InitEmbedIdle /\ InitMetaIdle
    /\ InitReadIdle /\ InitSimIdle

\* _initialize_vector_store up to its loop (lines 58-66): a new
\* DocumentProcessor processes the root
StartPopulating(docs) ==
    /\ rpc' = "populating"
    /\ documents' = docs
    /\ didx' = 1
    /\ outcomes' \in [1..Len(docs) -> PopulateOutcomes]

\* RAGRetriever.__init__ (lines 29-33) with _initialize_if_needed
Construct ==
    /\ rpc = "uninitialized"
    /\ \E infoOk \in BOOLEAN :
         LET info == get_collection_info(collection, infoOk)
         IN  /\ lastOp' = [name |-> "construct", before |-> collection,
                           infoOk |-> infoOk,
                           populated |-> needs_initialization(info),
                           returned |-> ~needs_initialization(info)]
             /\ IF needs_initialization(info)
                THEN StartPopulating(process_all_documents(root, chunk_size,
                                         chunk_overlap).all_documents)
                ELSE /\ rpc' = "ready"
                     /\ UNCHANGED <<readVars, simVars, documents, didx, outcomes>>
    /\ UNCHANGED <<readVars, simVars, collection, otherWrites, configVars, chunkVars, procVars,
                   embedVars, metaVars>>

\* one turn of the loop of _initialize_vector_store (lines 67-76)
PopulateDocument ==
    /\ rpc = "populating"
    /\ didx <= Len(documents)
    /\ LET r == populate_document(documents[didx], outcomes[didx], collection)
       IN  /\ collection' = r.coll
           /\ didx' = IF r.raised
                      THEN after_failed_document(didx, Len(documents))
                      ELSE didx + 1
    /\ UNCHANGED <<readVars, simVars, lastOp, otherWrites, rpc, documents, outcomes, configVars,
                   chunkVars, procVars, embedVars, metaVars>>

\* the loop is over: _initialize_vector_store returns, and with it the
\* constructor or refresh_vector_store (which returns True, line 220)
PopulateDone ==
    /\ rpc = "populating"
    /\ didx > Len(documents)
    /\ rpc' = "ready"
    /\ lastOp' = [lastOp EXCEPT !.returned = TRUE]
    /\ UNCHANGED <<readVars, simVars, collection, otherWrites, documents, didx, outcomes, configVars,
                   chunkVars, procVars, embedVars, metaVars>>

\* RAGRetriever.refresh_vector_store up to the loop of
\* _initialize_vector_store (lines 210-217)
Refresh ==
    /\ rpc = "ready"
    /\ \E clearOk \in BOOLEAN :
         /\ lastOp' = [name |-> "refresh", before |-> collection,
                       clearOk |-> clearOk, populated |-> TRUE,
                       returned |-> FALSE, result |-> TRUE]
         /\ collection' = clear_collection(collection, clearOk).coll
    /\ StartPopulating(process_all_documents(root, chunk_size,
                           chunk_overlap).all_documents)
    /\ UNCHANGED <<readVars, simVars, otherWrites, configVars, chunkVars, procVars, embedVars, metaVars>>

AddNewCall(content, response, storeOk, r) ==
    [name |-> "add_new", content |-> content, response |-> response,
     storeOk |-> storeOk, raised |-> r.raised, result |-> r.result,
     after |-> r.coll, before |-> collection, returned |-> TRUE]

\* RAGRetriever.add_new_document
AddNewDocument ==
    /\ rpc = "ready"
    /\ \E content \in AdhocTexts, storeOk \in BOOLEAN :
         \E response \in {None, Some(ServiceEmbedding(content))} :
           lastOp' = AddNewCall(content, response, storeOk,
                         add_new_document(content, StoreMetas[1], response,
                                          collection, storeOk))
    /\ collection' = lastOp'.after
    /\ documents' = <<>> /\ didx' = 0 /\ outcomes' = <<>>
    /\ UNCHANGED <<readVars, simVars, otherWrites, rpc, configVars, chunkVars, procVars, embedVars,
                   metaVars>>

NextRag ==
    \/ Construct
    \/ PopulateDocument
    \/ PopulateDone
    \/ Refresh
    \/ AddNewDocument

SpecRag == InitRag /\ [][NextRag]_vars

\* the loop of _initialize_vector_store runs to its end
SpecRagFair == SpecRag /\ WF_vars(PopulateDocument) /\ WF_vars(PopulateDone)

-----------------------------------------------------------------------------
(* DocumentReader.  A file is described by what the file system and the     *)
(* parsing library do with it:                                             *)
(*   ext        the suffix of the path, lower case                         *)
(*   stat       what Path.exists() meets: "found", "missing", or "denied"  *)
(*              (an OSError other than ENOENT, ENOTDIR, EBADF and ELOOP,   *)
(*              which pathlib raises again)                                *)
(*   installed  the library of the format imports                          *)
(*   opens      open() or the library's parser accepts the file            *)
(*   text       the decoded characters of a .txt or .doc file              *)
(*   pages      PDF: per page Some(text), or None when extract_text raises *)
(*   paragraphs, tables   .docx: paragraph texts; tables of rows of cells  *)
(*   sheets     spreadsheet: [name, columns, rows], cells already str()    *)
(* A private reader gives [raised |-> BOOLEAN, value |-> string];          *)
(* read_document gives [raised |-> BOOLEAN, content |-> Optional string].  *)

MaxPages == 2

ReaderTexts == {<<>>, <<" ">>, <<"a">>}
PdfPages == {None} \cup {Some(t) : t \in ReaderTexts \ {<<>>}}
DocxTables == {<<>>, << << <<<<" ">>>> >> >>, << << <<<<"a">>, <<" ">>, <<"b">>>> >> >>}
Sheets == {[name |-> <<"S">>, columns |-> <<>>, rows |-> <<>>],
           [name |-> <<"S">>, columns |-> <<<<"c">>>>, rows |-> <<<<<<>>>>>>],
           [name |-> <<"S">>, columns |-> <<<<"c">>, <<"d">>>>,
            rows |-> <<<<<<"a">>, <<>>>>>>]}

NoBody == [text |-> <<>>, pages |-> <<>>, paragraphs |-> <<>>, tables |-> <<>>,
           sheets |-> <<>>]
Bodies(ext) ==
    CASE ext \in {".txt", ".doc", ".md"} ->
             {[NoBody EXCEPT !.text = t] : t \in ReaderTexts}
      [] ext = ".pdf" ->
             {[NoBody EXCEPT !.pages = p] :
                 p \in UNION {[1..n -> PdfPages] : n \in 0..MaxPages}}
      [] ext = ".docx" ->
             {[NoBody EXCEPT !.paragraphs = p, !.tables = t] :
                 p \in UNION {[1..n -> ReaderTexts \ {<<>>}] : n \in 0..1},
                 t \in DocxTables}
      [] ext = ".xlsx" ->
             {[NoBody EXCEPT !.sheets = <<s>>] : s \in Sheets}

Extensions == {".txt", ".pdf", ".docx", ".doc", ".xlsx", ".md"}
ReaderFile(ext, stat, installed, opens, b) ==
    [ext |-> ext, stat |-> stat, installed |-> installed, opens |-> opens,
     text |-> b.text, pages |-> b.pages, paragraphs |-> b.paragraphs,
     tables |-> b.tables, sheets |-> b.sheets]

\* the files of one extension: not there, there without the library (.txt
\* needs none), there and rejected by the parser, there with each body
FilesOf(ext) ==
    {ReaderFile(ext, stat, TRUE, TRUE, NoBody) : stat \in {"missing", "denied"}}
    \cup {ReaderFile(ext, "found", installed, FALSE, NoBody) :
             installed \in (IF ext = ".txt" THEN {TRUE} ELSE BOOLEAN)}
    \cup {ReaderFile(ext, "found", TRUE, TRUE, b) : b \in Bodies(ext)}
ReaderFiles == UNION {FilesOf(ext) : ext \in Extensions}

ReadValue(s) == [raised |-> FALSE, value |-> s]
ReadRaises == [raised |-> TRUE, value |-> <<>>]

\* sep.join(parts)
RECURSIVE join(_, _)
join(sep, parts) ==
    IF parts = <<>> THEN <<>>
    ELSE IF Len(parts) = 1 THEN parts[1]
    ELSE parts[1] \o sep \o join(sep, Tail(parts))

\* [strip(p) for p in parts if p.strip()]
RECURSIVE StrippedNonBlank(_)
StrippedNonBlank(parts) ==
    IF parts = <<>> THEN <<>>
    ELSE (IF IsBlank(Head(parts)) THEN <<>> ELSE <<strip(Head(parts))>>)
         \o StrippedNonBlank(Tail(parts))

\* _read_text_file: latin-1 decodes every byte string, so the loop returns
\* at the first or second encoding; an OSError of open() is not caught here
read_text_file(f) ==
    IF f.opens THEN ReadValue(f.text) ELSE ReadRaises

\* lines 91-96: the pages whose text extracts and is not blank
RECURSIVE page_texts(_)
page_texts(pages) ==
    IF pages = <<>> THEN <<>>
    ELSE (IF Head(pages) # None /\ ~IsBlank(Head(pages)[1])
          THEN <<Head(pages)[1]>> ELSE <<>>) \o page_texts(Tail(pages))

\* _read_pdf_file
read_pdf_file(f) ==
    IF ~f.installed THEN ReadValue(<<>>)
    ELSE IF ~f.opens THEN ReadValue(<<>>)
    ELSE ReadValue(join(<<"\n", "\n">>, page_texts(f.pages)))

\* lines 140-146: one line per row that has a non-blank cell
RECURSIVE table_rows(_)
table_rows(rows) ==
    IF rows = <<>> THEN <<>>
    ELSE (IF StrippedNonBlank(Head(rows)) # <<>>
          THEN <<join(<<" ", "|", " ">>, StrippedNonBlank(Head(rows)))>>
          ELSE <<>>) \o table_rows(Tail(rows))

\* lines 139-146
RECURSIVE tables_text(_)
tables_text(tables) ==
    IF tables = <<>> THEN <<>>
    ELSE table_rows(Head(tables)) \o tables_text(Tail(tables))

\* _read_docx_file
read_docx_file(f) ==
    IF ~f.installed THEN ReadValue(<<>>)
    ELSE IF ~f.opens THEN ReadValue(<<>>)
    ELSE ReadValue(join(<<"\n">>,
             StrippedNonBlank(f.paragraphs) \o tables_text(f.tables)))

\* _read_doc_file
read_doc_file(f) ==
    IF ~f.installed THEN ReadValue(<<>>)
    ELSE IF ~f.opens THEN ReadValue(<<>>)
    ELSE ReadValue(f.text)

\* _read_word_file
read_word_file(f) ==
    IF f.ext = ".docx" THEN read_docx_file(f)
    ELSE IF f.ext = ".doc" THEN read_doc_file(f)
    ELSE ReadRaises

\* [v for v in row.values if str(v).strip()]
RECURSIVE NonBlankValues(_)
NonBlankValues(row) ==
    IF row = <<>> THEN <<>>
    ELSE (IF IsBlank(Head(row)) THEN <<>> ELSE <<Head(row)>>)
         \o NonBlankValues(Tail(row))

\* lines 200-204
RECURSIVE sheet_rows(_)
sheet_rows(rows) ==
    IF rows = <<>> THEN <<>>
    ELSE (IF IsBlank(join(<<" ", "|", " ">>, NonBlankValues(Head(rows))))
          THEN <<>>
          ELSE <<join(<<" ", "|", " ">>, NonBlankValues(Head(rows)))>>)
         \o sheet_rows(Tail(rows))

\* '-' * n
RECURSIVE dashes(_)
dashes(n) == IF n = 0 THEN <<>> ELSE <<"-">> \o dashes(n - 1)

\* lines 186-206: the lines one sheet adds to text_content
sheet_lines(s) ==
    <<<<"=", "=", "=", " ">> \o s.name \o <<" ", "=", "=", "=">>>>
    \o (IF s.columns # <<>> /\ s.rows # <<>>
        THEN <<join(<<" ", "|", " ">>, s.columns),
               dashes(Len(join(<<" ", "|", " ">>, s.columns)))>>
             \o sheet_rows(s.rows)
        ELSE <<>>)
    \o <<<<>>>>

RECURSIVE sheets_lines(_)
sheets_lines(sheets) ==
    IF sheets = <<>> THEN <<>>
    ELSE sheet_lines(Head(sheets)) \o sheets_lines(Tail(sheets))

\* _read_excel_file
read_excel_file(f) ==
    IF ~f.installed THEN ReadValue(<<>>)
    ELSE IF ~f.opens THEN ReadValue(<<>>)
    ELSE ReadValue(join(<<"\n">>, sheets_lines(f.sheets)))

\* lines 41-52: the dispatch on the extension
read_by_extension(f) ==
    IF f.ext = ".txt" THEN read_text_file(f)
    ELSE IF f.ext = ".pdf" THEN read_pdf_file(f)
    ELSE IF f.ext \in {".doc", ".docx"} THEN read_word_file(f)
    ELSE IF f.ext \in {".xlsx", ".xls"} THEN read_excel_file(f)
    ELSE ReadRaises

\* read_document: exists() is called outside the try, the dispatch inside it
read_document(f) ==
    IF f.stat = "denied" THEN [raised |-> TRUE, content |-> None]
    ELSE IF f.stat = "missing" THEN [raised |-> FALSE, content |-> None]
    ELSE IF f.ext \notin {".txt", ".pdf", ".doc", ".docx", ".xlsx", ".xls"}
    THEN [raised |-> FALSE, content |-> None]
    ELSE IF read_by_extension(f).raised THEN [raised |-> FALSE, content |-> None]
    ELSE [raised |-> FALSE, content |-> Some(read_by_extension(f).value)]

\* two calls, so that the outcomes of two files can be told apart
InitRead ==
    /\ reads \in ReaderFiles \X ReaderFiles
    /\ contents = <<>>
    /\ InitEmbedIdle /\ InitMetaIdle /\ InitStoreIdle /\ InitIngestIdle
    /\ InitSimIdle

\* DocumentReader.read_document on the next file
ReadDocument ==
    /\ Len(contents) < Len(reads)
    /\ contents' = Append(contents, read_document(reads[Len(contents) + 1]))
    /\ UNCHANGED <<reads, simVars, embedVars, metaVars, storeVars, ingestVars>>

NextRead == ReadDocument

SpecRead == InitRead /\ [][NextRead]_vars

-----------------------------------------------------------------------------
(* EmbeddingGenerator.compute_similarity.  Coordinates are small integers, *)
(* on which the sums and products of the code are exact.  A magnitude is   *)
(* kept as its square (the sum of squares), which is zero exactly when the *)
(* magnitude is; the quotient the code returns is kept as the pair of its  *)
(* dot product and the product of the two squares.                         *)
(* similarity is [error |-> "none" | "ValueError" | "ZeroDivisionError",   *)
(* dot |-> n, squares |-> m], standing for n / sqrt(m) when error is none. *)

MaxDim == 2
SimCoords == {-1, 0, 1}
SimVectors == UNION {[1..n -> SimCoords] : n \in 0..MaxDim}

SimValue(d, sq) == [error |-> "none", dot |-> d, squares |-> sq]
SimError(e) == [error |-> e, dot |-> 0, squares |-> 1]

\* a variant without the check of the lengths: zip cuts the longer vector
zip_dimension(e1, e2) == TRUE
\* line 239: the check of the lengths
same_dimension(e1, e2) == Len(e1) = Len(e2)

\* line 243: sum(a * b for a, b in zip(embedding1, embedding2)); zip stops at
\* the end of the shorter list
RECURSIVE dot_product(_, _)
dot_product(e1, e2) ==
    IF e1 = <<>> \/ e2 = <<>> THEN 0
    ELSE Head(e1) * Head(e2) + dot_product(Tail(e1), Tail(e2))

\* lines 246-247: sum(a * a for a in embedding), the square of the magnitude
RECURSIVE sum_of_squares(_)
sum_of_squares(e) ==
    IF e = <<>> THEN 0 ELSE Head(e) * Head(e) + sum_of_squares(Tail(e))

\* line 254: a division, which raises ZeroDivisionError on a zero divisor
divide(d, sq) == IF sq = 0 THEN SimError("ZeroDivisionError") ELSE SimValue(d, sq)

\* compute_similarity
compute_similarity(e1, e2) ==
    IF ~same_dimension(e1, e2) THEN SimError("ValueError")
    ELSE IF sum_of_squares(e1) = 0 \/ sum_of_squares(e2) = 0 THEN SimValue(0, 1)
    ELSE divide(dot_product(e1, e2), sum_of_squares(e1) * sum_of_squares(e2))

InitSim ==
    /\ embedding1 \in SimVectors /\ embedding2 \in SimVectors
    /\ spc = "called" /\ similarity = <<>>
    /\ InitEmbedIdle /\ InitMetaIdle /\ InitStoreIdle /\ InitIngestIdle
    /\ InitReadIdle

\* EmbeddingGenerator.compute_similarity
ComputeSimilarity ==
    /\ spc = "called"
    /\ similarity' = compute_similarity(embedding1, embedding2)
    /\ spc' = IF similarity'.error = "none" THEN "returned" ELSE "raised"
    /\ UNCHANGED <<embedding1, embedding2, readVars, embedVars, metaVars, storeVars,
                 ingestVars>>

NextSim == ComputeSimilarity

SpecSim == InitSim /\ [][NextSim]_vars

-----------------------------------------------------------------------------
(* Claims                                                                  *)

\* C1: embedBatch returns exactly one vector per input text, in input order
\* (same length as the input), whatever the batch size and whatever number of
\* embeddings a batch response carries.
C1_OneVectorPerText ==
    epc = "done" =>
        /\ Len(embeddings) = Len(texts)
        /\ \A p \in 1..Len(embeddings) : embeddings[p].of = p

\* C2: a text whose batch request and whose individual request both failed
\* gets a zero vector as long as the dimension the lookup reports for the
\* configured model.
C2_ZeroVectorOfModelDimension ==
    epc = "done" =>
        \A p \in 1..Len(embeddings) :
            embeddings[p].kind = "zero" =>
                \E probe \in ProbeOutcomes(model) :
                    embeddings[p].len = get_embedding_dimension(model, probe)

\* every character of s is whitespace (the empty string included)
AllWhitespace(s) == \A n \in 1..Len(s) : s[n] \in {" ", "\t", "\n"}

\* An add with a generated id has returned, and before it the collection, empty at
\* first and written by generated-id adds only, held one record with the same text:
\* the text has been added at least twice.
SameTextAddedAgain ==
    /\ lastOp.name = "add" /\ ~lastOp.raised /\ IsAuto(lastOp.document_id)
    /\ ~otherWrites
    /\ Cardinality(DOMAIN lastOp.before) = 1
    /\ \A id \in DOMAIN lastOp.before : lastOp.before[id].content = lastOp.content

\* C3: adding the same text again with a generated id to a collection that was
\* empty at first leaves one record: the add returns the id the earlier add
\* returned (the stored record's id) and info() counts 1.
C3_SameTextOneRecord ==
    SameTextAddedAgain =>
        /\ lastOp.result \in DOMAIN lastOp.before
        /\ get_collection_info(collection, TRUE).document_count = 1

C3_Witness ==
    /\ SameTextAddedAgain
    /\ \E id \in DOMAIN lastOp.before :
          lastOp.before[id].metadata # ChromaMetadata(lastOp.metadata)

\* C4: re-adding a text with a generated id overwrites, last writer wins: after
\* the add returns, the record under the returned id holds the vector just added
\* and get(id) returns the metadata just added.
C4_LastWriterWins ==
    (lastOp.name = "add" /\ ~lastOp.raised /\ IsAuto(lastOp.document_id)) =>
        /\ collection[lastOp.result].embedding = lastOp.embedding
        /\ \A k \in DOMAIN lastOp.metadata :
              SameValue(get_document_by_id(lastOp.result, collection, TRUE)[1].metadata[k],
                        lastOp.metadata[k])

\* C5: retrieve hands search the topK and the threshold its caller supplied (0
\* included) and the configured default only for an argument left unset.
C5_SuppliedArgumentsReachSearch ==
    (lastOp.name = "retrieve" /\ lastOp.searchArgs # None) =>
        /\ lastOp.searchArgs[1].top_k =
              (IF lastOp.top_k = None THEN RAG_TOP_K ELSE lastOp.top_k[1])
        /\ lastOp.searchArgs[1].similarity_threshold =
              (IF lastOp.similarity_threshold = None THEN RAG_SIMILARITY_THRESHOLD
               ELSE lastOp.similarity_threshold[1])

\* C6: retrieve with an empty or whitespace-only query returns [] and sends no
\* request to the embedding service and no query to the store.
C6_BlankQueryNoRequests ==
    (lastOp.name = "retrieve" /\ AllWhitespace(lastOp.query)) =>
        /\ ~lastOp.raised
        /\ lastOp.result = <<>>
        /\ lastOp.embedRequests = 0
        /\ lastOp.storeQueries = 0

C6_Witness ==
    /\ lastOp.name = "retrieve" /\ lastOp.query = <<"\t">>
    /\ lastOp.response # None /\ lastOp.storeOk
    /\ Cardinality(DOMAIN collection) >= 2

\* C7: retrieve with a non-blank query does not raise: when the embedding request
\* or the store query fails it returns [], and the collection is as it was.
C7_QueryFailuresGiveEmptyResult ==
    (/\ lastOp.name = "retrieve" /\ ~AllWhitespace(lastOp.query)
     /\ (lastOp.response = None \/ ~lastOp.storeOk)) =>
        /\ ~lastOp.raised
        /\ lastOp.result = <<>>
        /\ collection = lastOp.before

C7_Witness ==
    /\ lastOp.name = "retrieve" /\ ~AllWhitespace(lastOp.query)
    /\ lastOp.response # None /\ ~lastOp.storeOk
    /\ lastOp.storeQueries = 1
    /\ Cardinality(DOMAIN collection) >= 2

\* the score of the record a result names: 1 / (1 + squared distance)
RecordScore(res) ==
    <<1, 1 + SqL2(lastOp.query_embedding, lastOp.before[res.id].embedding)>>

\* C8: search returns at most topK results, each with a similarity score
\* 1 / (1 + distance) of at least the threshold.
C8_AtMostTopKAboveThreshold ==
    lastOp.name = "search" =>
        /\ Len(lastOp.result) <= lastOp.top_k
        /\ \A n \in 1..Len(lastOp.result) :
              GE(RecordScore(lastOp.result[n]), lastOp.similarity_threshold)

\* topK cut the answer short and the threshold removed a record from it
C8_Witness ==
    /\ lastOp.name = "search"
    /\ Cardinality(DOMAIN collection) > lastOp.top_k
    /\ Len(lastOp.raw) = lastOp.top_k
    /\ Len(lastOp.result) >= 1
    /\ Len(lastOp.result) < Len(lastOp.raw)

PositionIn(seq, x) == CHOOSE n \in 1..Len(seq) : seq[n] = x

\* C9: search results are sorted by score, descending, and results of equal score
\* keep the order in which the store returned them.
C9_SortedDescendingStable ==
    lastOp.name = "search" =>
        \A a, b \in 1..Len(lastOp.result) :
            a < b =>
                /\ GE(RecordScore(lastOp.result[a]), RecordScore(lastOp.result[b]))
                /\ GE(RecordScore(lastOp.result[b]), RecordScore(lastOp.result[a])) =>
                      PositionIn(lastOp.raw, lastOp.result[a].id)
                          < PositionIn(lastOp.raw, lastOp.result[b].id)

C9_Witness ==
    /\ lastOp.name = "search"
    /\ Len(lastOp.result) >= 2
    /\ \E a \in 1..(Len(lastOp.result) - 1) :
          RecordScore(lastOp.result[a]) = RecordScore(lastOp.result[a + 1])

\* C10: metadata round-trip: what _parse_metadata reads back from the stored
\* strings has, key by key, the type and the value of what add_document was given.
C10_MetadataRoundTrip ==
    mpc = "parsed" =>
        \A k \in DOMAIN metadata : SameValue(parsed[k], metadata[k])

BeginsWith(s, prefix) == HasAt(s, 1, prefix)
EndsWith(s, suffix) ==
    Len(suffix) <= Len(s) /\ SubSeq(s, Len(s) - Len(suffix) + 1, Len(s)) = suffix

\* one word (no whitespace inside) or one sentence (no '.', '!' or '?' that
\* whitespace follows inside)
IsAtomicUnit(s) ==
    \/ \A n \in 1..Len(s) : s[n] \notin Whitespace
    \/ SentenceCut(s, 1) = 0

\* C18: every chunk chunk_text returns is non-empty after trimming and, with
\* the overlap put in front of it removed, at most chunk_size characters long,
\* unless what remains is a single word or sentence.
C18_ChunksNonEmptyWithinSize ==
    cpc = "returned" =>
        \A n \in 1..Len(chunks) :
            /\ strip(chunks[n].text) # <<>>
            /\ BeginsWith(chunks[n].text, chunks[n].ov)
            /\ EndsWith(strip(chunks[n].text), strip(chunks[n].pre))
            /\ \/ Len(strip(chunks[n].pre)) <= chunk_size
               \/ IsAtomicUnit(strip(chunks[n].pre))

\* whitespace runs collapsed to one blank, from position p on
RECURSIVE RunsCollapsedFrom(_, _)
RunsCollapsedFrom(s, p) ==
    IF p > Len(s) THEN <<>>
    ELSE IF s[p] \notin Whitespace THEN <<s[p]>> \o RunsCollapsedFrom(s, p + 1)
    ELSE IF p = 1 \/ s[p - 1] \notin Whitespace
         THEN <<" ">> \o RunsCollapsedFrom(s, p + 1)
         ELSE RunsCollapsedFrom(s, p + 1)

\* the cleaned input: whitespace runs collapsed, ends trimmed
Cleaned(s) == strip(RunsCollapsedFrom(s, 1))

\* C19: a non-blank text no longer than chunk_size comes back as exactly one
\* chunk, the cleaned input; a blank text gives the empty sequence.
C19_ShortTextOneChunk ==
    cpc # "called" =>
        /\ AllWhitespace(input_text) => cpc = "returned" /\ chunks = <<>>
        /\ (~AllWhitespace(input_text) /\ Len(Cleaned(input_text)) <= chunk_size) =>
              /\ cpc = "returned"
              /\ Len(chunks) = 1
              /\ chunks[1].text = Cleaned(input_text)

\* a short text whose cleaning changed it
C19_Witness ==
    /\ cpc = "returned"
    /\ ~AllWhitespace(input_text)
    /\ Len(input_text) <= chunk_size
    /\ Len(chunks) = 1
    /\ chunks[1].text # input_text

\* C20: in a result of several chunks, every chunk after the first begins with
\* a suffix of the chunk before it as that was before its own overlap; the
\* suffix starts at a word boundary and is at most chunk_overlap long.
C20_OverlapIsWordAlignedSuffix ==
    (cpc = "returned" /\ Len(chunks) > 1) =>
        \A n \in 2..Len(chunks) :
            /\ BeginsWith(chunks[n].text, strip(chunks[n].ov))
            /\ EndsWith(strip(chunks[n - 1].pre), strip(chunks[n].ov))
            /\ \/ strip(chunks[n].ov) = <<>>
               \/ Len(strip(chunks[n].ov)) = Len(strip(chunks[n - 1].pre))
               \/ strip(chunks[n - 1].pre)[Len(strip(chunks[n - 1].pre))
                                           - Len(strip(chunks[n].ov))] = " "
            /\ Len(strip(chunks[n].ov)) <= chunk_overlap

\* the files of the root, by position
Files == DOMAIN root

\* the records of all_documents that come from file k
EmittedFrom(k) ==
    {m \in DOMAIN all_documents : all_documents[m].source = FilePaths[k]}

\* C11: when process_all_documents has returned, of two byte-identical files
\* of the root at most one has chunk records in the output, and no two
\* records with different source paths carry the same file hash.
C11_IdenticalFilesEmittedOnce ==
    ppc = "returned" =>
        /\ \A a, b \in Files :
               (a < b /\ root[a].content = root[b].content)
                   => (EmittedFrom(a) = {} \/ EmittedFrom(b) = {})
        /\ \A m, n \in DOMAIN all_documents :
               all_documents[m].source # all_documents[n].source
                   => all_documents[m].metadata.file_hash
                          # all_documents[n].metadata.file_hash

\* file k is a bad document: its read, its metadata or its chunking fails
BadDocument(k) ==
    \/ ~root[k].readOk
    \/ IsBlank(root[k].content)
    \/ ~root[k].statOk
    \/ chunk_text(root[k].content, "recursive", chunk_size, chunk_overlap).raised

\* the chunk texts the chunker gives for file k
ChunkContents(k) ==
    LET r == chunk_text(root[k].content, "recursive", chunk_size, chunk_overlap)
    IN  {strip(r.chunks[n].text) : n \in DOMAIN r.chunks}

\* the output holds the chunk records of file k
HoldsRecordsOf(k) ==
    /\ EmittedFrom(k) # {}
    /\ {all_documents[m].content : m \in EmittedFrom(k)} = ChunkContents(k)

\* C12: process_all_documents returns, whatever files fail, and its output
\* holds the chunk records of every file that is not a bad document, under
\* its own path or, when the hash check skipped it, under the path of an
\* identical earlier file.
C12_BatchNeverAborts ==
    ppc = "returned" =>
        \A k \in Files :
            ~BadDocument(k) =>
                IF k \in skipped
                THEN \E a \in Files :
                         /\ a < k /\ root[a].content = root[k].content
                         /\ HoldsRecordsOf(a)
                ELSE HoldsRecordsOf(k)

\* a bad document is followed by a good one whose records are in the output
C12_Witness ==
    /\ ppc = "returned"
    /\ \E a, b \in Files :
           /\ a < b /\ BadDocument(a) /\ ~BadDocument(b)
           /\ b \notin skipped /\ HoldsRecordsOf(b)

Populated ==
    /\ rpc = "ready"
    /\ lastOp.name \in {"construct", "refresh"}
    /\ lastOp.populated

\* the collection holds a record with this text
HoldsText(content) ==
    \E id \in DOMAIN collection : collection[id].content = content

\* C14: a population always reaches ready, whatever documents fail, and then
\* every document whose embedding and store write succeeded has its text in
\* the collection.
C14_PopulatingToleratesFailures ==
    /\ [](Populated =>
            \A k \in DOMAIN documents :
                outcomes[k] = "ok" => HoldsText(documents[k].content))
    /\ (rpc = "populating") ~> (rpc = "ready")

\* a population in which a document failed and a later one was stored
C14_Witness ==
    /\ Populated
    /\ \E a, b \in DOMAIN documents :
           /\ a < b /\ outcomes[a] # "ok" /\ outcomes[b] = "ok"
           /\ documents[a].content # documents[b].content
           /\ HoldsText(documents[b].content)
           /\ ~HoldsText(documents[a].content)

\* the collection a population of docs with outcomes outs builds on coll
RECURSIVE PopulatedFrom(_, _, _, _)
PopulatedFrom(docs, outs, k, coll) ==
    IF k > Len(docs) THEN coll
    ELSE PopulatedFrom(docs, outs, k + 1, populate_document(docs[k], outs[k], coll).coll)

\* C15: when refresh_vector_store has returned True, the collection holds
\* exactly the records the population over the current root produces, and no
\* record from before the refresh.
C15_RefreshLeavesOnlyFreshRecords ==
    (lastOp.name = "refresh" /\ lastOp.returned /\ lastOp.result) =>
        collection = PopulatedFrom(documents, outcomes, 1, <<>>)

\* C16: add_new_document never raises; it returns True only when the text
\* was embedded and stored, and then the collection holds a record with that
\* text; a blank text, a failed embedding request or a failed store write
\* gives False and leaves the collection as it was.
C16_AddNewDocumentResult ==
    lastOp.name = "add_new" =>
        /\ ~lastOp.raised
        /\ lastOp.result =>
               /\ ~IsBlank(lastOp.content)
               /\ lastOp.response # None
               /\ lastOp.storeOk
               /\ HoldsText(lastOp.content)
        /\ (IsBlank(lastOp.content) \/ lastOp.response = None \/ ~lastOp.storeOk) =>
               /\ ~lastOp.result
               /\ collection = lastOp.before

\* add_new_document returned True and the collection has a new record
C16_Witness ==
    /\ lastOp.name = "add_new"
    /\ lastOp.result
    /\ collection # lastOp.before

StoreOperations ==
    {"add", "search", "get", "update", "delete", "clear", "info", "backup"}

\* the call in lastOp returned false, an empty result or none
ReturnedFailure ==
    /\ ~lastOp.raised
    /\ CASE lastOp.name \in {"update", "delete", "clear", "backup"} ->
                lastOp.result = FALSE
         [] lastOp.name = "search" -> lastOp.result = <<>>
         [] lastOp.name = "get" -> lastOp.result = None
         [] OTHER -> FALSE

\* the call in lastOp returned a mapping that holds nothing but the error
ReturnedErrorMapping ==
    /\ ~lastOp.raised
    /\ lastOp.name = "info"
    /\ DOMAIN lastOp.result = {"error"}

\* C17 as stated: every VectorStore operation answers an error of the store
\* with false, an empty result or none, and raises nothing.
C17_StoreErrorsAreReturned ==
    (lastOp.name \in StoreOperations /\ ~lastOp.storeOk) => ReturnedFailure

\* C17, amended: every VectorStore operation other than add answers an error
\* of the store through its return value (false, an empty result, none, or
\* for info a mapping holding only an error entry) and raises nothing; add
\* raises an exception to its caller.
C17_StoreErrorsAreReturnedExceptByAdd ==
    (lastOp.name \in StoreOperations /\ ~lastOp.storeOk) =>
        CASE lastOp.name = "add" -> lastOp.raised
          [] lastOp.name = "info" -> ReturnedErrorMapping
          [] OTHER -> ReturnedFailure

\* the store failed during a delete on a collection that holds records
C17_Witness ==
    /\ lastOp.name = "delete"
    /\ ~lastOp.storeOk
    /\ lastOp.result = FALSE
    /\ collection # <<>>

\* the characters of s that are not whitespace, in order
NonWhitespace(s) == SelectSeq(s, LAMBDA c : c \notin Whitespace)

\* the texts of the chunks cs, one after the other
RECURSIVE ConcatTexts(_)
ConcatTexts(cs) ==
    IF cs = <<>> THEN <<>> ELSE Head(cs).text \o ConcatTexts(Tail(cs))

\* C21: with overlap 0 the chunks of recursive chunking, read in order, hold
\* every non-whitespace character of the cleaned text.
C21_ChunksCoverCleanedText ==
    (cpc = "returned" /\ chunk_method = "recursive" /\ chunk_overlap = 0) =>
        NonWhitespace(ConcatTexts(chunks)) = NonWhitespace(clean_text(input_text))

\* the records of the earlier call that come from file k
PreviouslyEmittedFrom(k) ==
    {m \in DOMAIN previous_documents : previous_documents[m].source = FilePaths[k]}

\* a file with the bytes of file k has records in one of the two calls
ContentEmitted(k) ==
    \E a \in Files :
        /\ root[a].content = root[k].content
        /\ (EmittedFrom(a) # {} \/ PreviouslyEmittedFrom(a) # {})

\* C22: a second call of process_all_documents on the same processor over the
\* unchanged root emits no record for a file whose chunks the first call
\* emitted, and attempts again a file that gave no chunks and whose content
\* no call has emitted.
C22_ReingestionIsNoOp ==
    ppc = "returned_again" =>
        \A k \in Files :
            /\ PreviouslyEmittedFrom(k) # {} => EmittedFrom(k) = {}
            /\ ~ContentEmitted(k) => k \notin skipped

\* the collection holds document k of the population as a record of its own
StoredAsOwnRecord(k) ==
    \E id \in DOMAIN collection :
        /\ collection[id].content = documents[k].content
        /\ collection[id].metadata = ChromaMetadata(documents[k].metadata)

\* C23: when two documents with different file hashes each give a chunk with
\* the same text and both chunks are embedded and stored, the collection
\* holds two records for that text, each with the metadata of its document.
C23_SameTextOfTwoDocumentsStoredTwice ==
    Populated =>
        \A a, b \in DOMAIN documents :
            (/\ a < b
             /\ documents[a].content = documents[b].content
             /\ documents[a].metadata.file_hash # documents[b].metadata.file_hash
             /\ outcomes[a] = "ok" /\ outcomes[b] = "ok")
                => StoredAsOwnRecord(a) /\ StoredAsOwnRecord(b)

\* C24: overlap is applied once per returned chunk: the first chunk has no
\* overlap text in front of it, and every later chunk has at most one, not
\* one from a sub-split or a fallback plus another from the enclosing
\* overlap pass.
C24_OverlapAppliedOnce ==
    cpc = "returned" =>
        /\ chunks # <<>> => chunks[1].layers = 0
        /\ \A n \in 1..Len(chunks) : chunks[n].layers <= 1

\* the requests sent so far, in order
Requests == SelectSeq(events, LAMBDA e : e.kind # "sleep")

\* the batch requests and the per-text requests among them
BatchRequests == SelectSeq(events, LAMBDA e : e.kind = "batch")
SingleRequests == SelectSeq(events, LAMBDA e : e.kind = "single")

\* the groups the loop has finished: their offsets into texts
FinishedGroups ==
    {g \in 0..(Len(texts) - 1) : g % batch_size = 0 /\ g < i}

\* the batch request of the group at offset g failed
GroupFailed(g) ==
    \E n \in DOMAIN BatchRequests :
        BatchRequests[n].first = g + 1 /\ ~BatchRequests[n].ok

\* the offset of the group that text pos belongs to
GroupOf(pos) == ((pos - 1) \div batch_size) * batch_size

\* C25: generate_embeddings_batch sends one multi-input request per group of
\* batch_size texts, in order; per-text requests go only to texts of a group
\* whose multi-input request failed, at most one per text and in input order;
\* and the call always ends.
C25_OneBatchRequestPerGroup ==
    /\ [](epc \in {"loop", "fallback", "done"} =>
            /\ \A m, n \in DOMAIN BatchRequests :
                   m < n => BatchRequests[m].first < BatchRequests[n].first
            /\ \A g \in FinishedGroups :
                   \E n \in DOMAIN BatchRequests : BatchRequests[n].first = g + 1
            /\ \A n \in DOMAIN BatchRequests :
                   /\ (BatchRequests[n].first - 1) % batch_size = 0
                   /\ BatchRequests[n].size
                          = Min(batch_size, Len(texts) - BatchRequests[n].first + 1)
            /\ \A m, n \in DOMAIN SingleRequests :
                   m < n => SingleRequests[m].pos < SingleRequests[n].pos
            /\ \A n \in DOMAIN SingleRequests :
                   /\ SingleRequests[n].pos \in DOMAIN texts
                   /\ GroupFailed(GroupOf(SingleRequests[n].pos)))
    /\ <>(epc \in {"done", "raised"})

\* a call has ended in which a group failed and its texts were requested one
\* by one, and another group was answered at once
C25_Witness ==
    /\ epc = "done"
    /\ Len(SingleRequests) >= 2
    /\ \E n \in DOMAIN BatchRequests : BatchRequests[n].ok

\* C26: a delay separates every two consecutive requests of one call.
C26_DelayBetweenRequests ==
    \A n \in 1..(Len(events) - 1) :
        ~(events[n].kind # "sleep" /\ events[n + 1].kind # "sleep")

\* C27: chunk_text comes back with its chunks for every text and every
\* configuration with chunk_size >= 1 and chunk_overlap >= 0: no iteration of
\* the character fallback leaves start where it was or moves it back, which is
\* the only way the call fails to return.
C27_ChunkTerminates ==
    cpc # "raised"

\* a supported file that is there and whose library imports
Attempted(f) ==
    /\ f.stat = "found" /\ f.installed
    /\ f.ext \in {".txt", ".pdf", ".docx", ".doc", ".xlsx"}
\* a hard read or parse failure
HardFailure(f) == Attempted(f) /\ ~f.opens
\* an extraction that succeeds and yields no usable character
EmptyExtraction(f) ==
    /\ Attempted(f) /\ f.opens
    /\ IsBlank(f.text) /\ page_texts(f.pages) = <<>>
    /\ StrippedNonBlank(f.paragraphs) = <<>> /\ tables_text(f.tables) = <<>>
    /\ f.sheets = <<>>

\* C29: read_document never raises past its caller, and for every supported
\* format what it returns for an extraction that succeeds with zero usable
\* characters differs from what it returns for a hard read or parse failure.
C29_EmptyContentDistinctFromFailure ==
    /\ \A a \in 1..Len(contents) : ~contents[a].raised
    /\ \A a, b \in 1..Len(contents) :
           (HardFailure(reads[a]) /\ EmptyExtraction(reads[b])
               /\ reads[a].ext = reads[b].ext)
           => contents[a].content # contents[b].content

\* a vector of zero magnitude: every coordinate is 0
AllZero(e) == \A k \in 1..Len(e) : e[k] = 0

\* C30: compute_similarity raises the usage error whenever the two vectors
\* differ in length, also when one of them is all zeros; it returns 0 whenever
\* the lengths are equal and a vector has zero magnitude; it never divides by
\* zero and returns a value only for vectors of equal length.
C30_SimilarityErrors ==
    (spc \in {"returned", "raised"}) =>
        /\ (Len(embedding1) # Len(embedding2))
               => (spc = "raised" /\ similarity.error = "ValueError")
        /\ (Len(embedding1) = Len(embedding2)
               /\ (AllZero(embedding1) \/ AllZero(embedding2)))
               => (spc = "returned" /\ similarity.dot = 0)
        /\ similarity.error # "ZeroDivisionError"
        /\ (spc = "returned") => (Len(embedding1) = Len(embedding2))

\* a usage error for vectors of different lengths one of which is all zeros
C30_Witness ==
    /\ spc = "raised" /\ similarity.error = "ValueError"
    /\ Len(embedding1) # Len(embedding2)
    /\ embedding1 # <<>> /\ AllZero(embedding1)

====
